---------------------------- MODULE Spec2Model ----------------------------
(***************************************************************************)
(* Web Bot Auth validation: the directory resolver (lib/directory.ts) and  *)
(* the signature verifier (lib/signature.ts).                              *)
(*                                                                         *)
(* JavaScript values are tagged records, so that typeof, truthiness and    *)
(* strict equality are computed the way the engine computes them.  An      *)
(* absent property reads as undefined, as in JavaScript.  Error messages   *)
(* are sequences of the pieces the template literals concatenate.          *)
(***************************************************************************)
EXTENDS Integers, Sequences, FiniteSets, TLC

(***************************************************************************)
(* State                                                                   *)
(***************************************************************************)
VARIABLES
    now,               \* Date.now(), in milliseconds
    NODE_ENV,          \* process.env.NODE_ENV
    validationConfig,  \* the ValidationConfig the verifier is set up with
    directoryCache,    \* the Map of lib/directory.ts: url -> {data, timestamp}
    fetchCount,        \* the calls of fetch() so far
    calls,             \* per slot, the call in progress or last completed
    batch,             \* the call of validateBatch in progress or completed
    lookup,            \* the last call of findKeyById
    stats              \* what the last call of getCacheStats returned

vars ==
    <<now, NODE_ENV, validationConfig, directoryCache, fetchCount, calls,
      batch, lookup, stats>>

(***************************************************************************)
(* JavaScript values                                                       *)
(***************************************************************************)
Undef == [t |-> "undefined", s |-> "", n |-> 0]

Null == [t |-> "null", s |-> "", n |-> 0]

Str(s) == [t |-> "string", s |-> s, n |-> 0]

Num(n) == [t |-> "number", s |-> "", n |-> n]

\* A header value kept as the tokens of its text: the string is empty when
\* it has no token.  A token is one name=value item; prefix is the text
\* that precedes the name without a separator (as in x-keyid="k"), quoted
\* tells whether the value stands between double quotes.
Text(tokens) == [t |-> "text", tokens |-> tokens]

Token(prefix, name, quoted, value) ==
    [prefix |-> prefix, name |-> name, quoted |-> quoted, value |-> value]

\* !v is false: objects and arrays, non-empty strings, non-zero numbers.
Truthy(v) ==
    CASE v.t = "string" -> v.s # ""
      [] v.t = "number" -> v.n # 0
      [] v.t = "text" -> v.tokens # <<>>
      [] v.t \in {"undefined", "null"} -> FALSE
      [] OTHER -> TRUE

\* typeof v: null and arrays are "object".
TypeOf(v) ==
    IF v.t \in {"null", "array", "object"} THEN "object"
    ELSE IF v.t = "text" THEN "string"
    ELSE v.t

\* v.f: undefined when v has no such property.
Get(v, f) ==
    IF v.t = "object" /\ f \in DOMAIN v THEN v[f] ELSE Undef

\* A JSON array.
Arr(items) == [t |-> "array", items |-> items]

\* A JWK as it appears in a directory document; an absent member is Undef.
Jwk(kty, crv, x, kid, nbf, exp) ==
    [t |-> "object", kty |-> kty, crv |-> crv, x |-> x, kid |-> kid,
     nbf |-> nbf, exp |-> exp]

\* A directory document: { keys, purpose }.
Dir(keys, purpose) == [t |-> "object", keys |-> keys, purpose |-> purpose]

(***************************************************************************)
(* lib/directory.ts: structure validation                                  *)
(***************************************************************************)
Valid == [isValid |-> TRUE, error |-> <<>>]

Invalid(msg) == [isValid |-> FALSE, error |-> msg]

\* Mutant: the curve is not checked.
validateJWK_NoCurveCheck(key) ==
    IF ~Truthy(key) \/ TypeOf(key) # "object"
      THEN Invalid(<<"Key is not an object">>)
    ELSE IF Get(key, "kty") # Str("OKP")
      THEN Invalid(<<"Key type must be \"OKP\" for Ed25519">>)
    ELSE IF ~Truthy(Get(key, "x")) \/ TypeOf(Get(key, "x")) # "string"
      THEN Invalid(<<"Missing or invalid \"x\" coordinate">>)
    ELSE IF ~Truthy(Get(key, "kid")) \/ TypeOf(Get(key, "kid")) # "string"
      THEN Invalid(<<"Missing or invalid \"kid\" (Key ID)">>)
    ELSE IF Get(key, "nbf") # Undef /\ TypeOf(Get(key, "nbf")) # "number"
      THEN Invalid(<<"Invalid \"nbf\" (Not Before) timestamp">>)
    ELSE IF Get(key, "exp") # Undef /\ TypeOf(Get(key, "exp")) # "number"
      THEN Invalid(<<"Invalid \"exp\" (Expiration) timestamp">>)
    ELSE Valid

\* Mutant: any kid will do, also none and the empty string.
validateJWK_NoKidCheck(key) ==
    IF ~Truthy(key) \/ TypeOf(key) # "object"
      THEN Invalid(<<"Key is not an object">>)
    ELSE IF Get(key, "kty") # Str("OKP")
      THEN Invalid(<<"Key type must be \"OKP\" for Ed25519">>)
    ELSE IF Get(key, "crv") # Str("Ed25519")
      THEN Invalid(<<"Curve must be \"Ed25519\"">>)
    ELSE IF ~Truthy(Get(key, "x")) \/ TypeOf(Get(key, "x")) # "string"
      THEN Invalid(<<"Missing or invalid \"x\" coordinate">>)
    ELSE IF Get(key, "nbf") # Undef /\ TypeOf(Get(key, "nbf")) # "number"
      THEN Invalid(<<"Invalid \"nbf\" (Not Before) timestamp">>)
    ELSE IF Get(key, "exp") # Undef /\ TypeOf(Get(key, "exp")) # "number"
      THEN Invalid(<<"Invalid \"exp\" (Expiration) timestamp">>)
    ELSE Valid

validateJWK(key) ==
    IF ~Truthy(key) \/ TypeOf(key) # "object"
      THEN Invalid(<<"Key is not an object">>)
    ELSE IF Get(key, "kty") # Str("OKP")
      THEN Invalid(<<"Key type must be \"OKP\" for Ed25519">>)
    ELSE IF Get(key, "crv") # Str("Ed25519")
      THEN Invalid(<<"Curve must be \"Ed25519\"">>)
    ELSE IF ~Truthy(Get(key, "x")) \/ TypeOf(Get(key, "x")) # "string"
      THEN Invalid(<<"Missing or invalid \"x\" coordinate">>)
    ELSE IF ~Truthy(Get(key, "kid")) \/ TypeOf(Get(key, "kid")) # "string"
      THEN Invalid(<<"Missing or invalid \"kid\" (Key ID)">>)
    ELSE IF Get(key, "nbf") # Undef /\ TypeOf(Get(key, "nbf")) # "number"
      THEN Invalid(<<"Invalid \"nbf\" (Not Before) timestamp">>)
    ELSE IF Get(key, "exp") # Undef /\ TypeOf(Get(key, "exp")) # "number"
      THEN Invalid(<<"Invalid \"exp\" (Expiration) timestamp">>)
    ELSE Valid

\* Mutant: the loop runs to the end and reports the last key that
\* validateJWK rejects.
validateKeysFrom_LastInvalid(items, i) ==
    LET rejected == {j \in i..Len(items) : ~validateJWK(items[j]).isValid}
        last == CHOOSE j \in rejected : \A k \in rejected : j >= k
    IN  IF rejected = {} THEN Valid
        ELSE Invalid(<<"Invalid key at index ", ToString(last - 1), ": ">>
                     \o validateJWK(items[last]).error)

\* The for loop of validateDirectoryStructure: the first key, from index i
\* on, that validateJWK rejects decides the result.
RECURSIVE validateKeysFrom(_, _)
validateKeysFrom(items, i) ==
    IF i > Len(items) THEN Valid
    ELSE LET keyValidation == validateJWK(items[i])
         IN  IF ~keyValidation.isValid
               THEN Invalid(<<"Invalid key at index ", ToString(i - 1), ": ">>
                            \o keyValidation.error)
               ELSE validateKeysFrom(items, i + 1)

\* Mutant: no check of the length of the keys array.
validateDirectoryStructure_NoEmptyCheck(data) ==
    IF ~Truthy(data) \/ TypeOf(data) # "object"
      THEN Invalid(<<"Directory data is not an object">>)
    ELSE IF Get(data, "keys").t # "array"
      THEN Invalid(<<"Directory must contain a \"keys\" array">>)
    ELSE validateKeysFrom(Get(data, "keys").items, 1)

validateDirectoryStructure(data) ==
    IF ~Truthy(data) \/ TypeOf(data) # "object"
      THEN Invalid(<<"Directory data is not an object">>)
    ELSE IF Get(data, "keys").t # "array"
      THEN Invalid(<<"Directory must contain a \"keys\" array">>)
    ELSE IF Len(Get(data, "keys").items) = 0
      THEN Invalid(<<"Directory keys array cannot be empty">>)
    ELSE validateKeysFrom(Get(data, "keys").items, 1)

\* Mutant: findLast instead of find.
findKeyById_Last(directory, kid) ==
    LET items == directory.keys.items
        hits == {i \in 1..Len(items) : Get(items[i], "kid") = kid}
    IN  IF hits = {} THEN Undef
        ELSE items[CHOOSE i \in hits : \A j \in hits : i >= j]

\* Mutant: the predicate assigns instead of comparing, so the first key
\* always matches.
findKeyById_First(directory, kid) ==
    IF Len(directory.keys.items) = 0 THEN Undef
    ELSE directory.keys.items[1]

\* directory.keys.find((key) => key.kid === kid): the first match, or
\* undefined.
findKeyById(directory, kid) ==
    LET items == directory.keys.items
        hits == {i \in 1..Len(items) : Get(items[i], "kid") = kid}
    IN  IF hits = {} THEN Undef
        ELSE items[CHOOSE i \in hits : \A j \in hits : i <= j]


(***************************************************************************)
(* lib/signature.ts: header parsing                                        *)
(***************************************************************************)
\* The values \d+ matches in full.
Digits == {"1234567890", "1234567899"}

\* signatureInput.match(/name="([^"]+)"/): the leftmost name="..." with a
\* non-empty quoted value, whatever text precedes the name; capture group 1,
\* or undefined when there is no match.
matchQuoted(signatureInput, name) ==
    LET tokens == signatureInput.tokens
        hits == {i \in 1..Len(tokens) :
                    /\ tokens[i].name = name
                    /\ tokens[i].quoted
                    /\ tokens[i].value # ""}
    IN  IF hits = {} THEN Undef
        ELSE Str(tokens[CHOOSE i \in hits : \A j \in hits : i <= j].value)

\* signatureInput.match(/name=(\d+)/): the leftmost name= followed by
\* digits.
matchDigits(signatureInput, name) ==
    LET tokens == signatureInput.tokens
        hits == {i \in 1..Len(tokens) :
                    /\ tokens[i].name = name
                    /\ ~tokens[i].quoted
                    /\ tokens[i].value \in Digits}
    IN  IF hits = {} THEN Undef
        ELSE Str(tokens[CHOOSE i \in hits : \A j \in hits : i <= j].value)

\* request.headers.get(name): null when the request has no such header.
headersGet(request, name) ==
    IF name \in DOMAIN request.headers THEN request.headers[name] ELSE Null

\* Mutant: only the signature header is required.
extractSignatureComponents_SignatureOnly(request) ==
    LET signature == headersGet(request, "signature")
        header == headersGet(request, "signature-input")
        signatureInput == IF Truthy(header) THEN header ELSE Text(<<>>)
    IN  IF ~Truthy(signature) THEN Null
        ELSE [t |-> "object",
              signature |-> signature,
              signatureInput |-> header,
              keyId |-> matchQuoted(signatureInput, "keyid"),
              algorithm |-> matchQuoted(signatureInput, "alg"),
              created |-> matchDigits(signatureInput, "created"),
              expires |-> matchDigits(signatureInput, "expires"),
              nonce |-> matchQuoted(signatureInput, "nonce"),
              tag |-> matchQuoted(signatureInput, "tag")]

\* Mutant: a signature-input without keyid does not parse.
extractSignatureComponents_KeyIdRequired(request) ==
    LET signature == headersGet(request, "signature")
        signatureInput == headersGet(request, "signature-input")
    IN  IF ~Truthy(signature) \/ ~Truthy(signatureInput) THEN Null
        ELSE IF matchQuoted(signatureInput, "keyid") = Undef THEN Null
        ELSE [t |-> "object",
              signature |-> signature,
              signatureInput |-> signatureInput,
              keyId |-> matchQuoted(signatureInput, "keyid"),
              algorithm |-> matchQuoted(signatureInput, "alg"),
              created |-> matchDigits(signatureInput, "created"),
              expires |-> matchDigits(signatureInput, "expires"),
              nonce |-> matchQuoted(signatureInput, "nonce"),
              tag |-> matchQuoted(signatureInput, "tag")]

\* Mutant: a request without a signature-agent header counts as unsigned.
extractSignatureComponents_AgentRequired(request) ==
    LET signature == headersGet(request, "signature")
        signatureInput == headersGet(request, "signature-input")
        agent == headersGet(request, "signature-agent")
    IN  IF ~Truthy(signature) \/ ~Truthy(signatureInput) THEN Null
        ELSE IF ~Truthy(agent) THEN Null
        ELSE [t |-> "object",
              signature |-> signature,
              signatureInput |-> signatureInput,
              keyId |-> matchQuoted(signatureInput, "keyid"),
              algorithm |-> matchQuoted(signatureInput, "alg"),
              created |-> matchDigits(signatureInput, "created"),
              expires |-> matchDigits(signatureInput, "expires"),
              nonce |-> matchQuoted(signatureInput, "nonce"),
              tag |-> matchQuoted(signatureInput, "tag")]

\* Null when either header is missing or empty.
extractSignatureComponents(request) ==
    LET signature == headersGet(request, "signature")
        signatureInput == headersGet(request, "signature-input")
    IN  IF ~Truthy(signature) \/ ~Truthy(signatureInput) THEN Null
        ELSE [t |-> "object",
              signature |-> signature,
              signatureInput |-> signatureInput,
              keyId |-> matchQuoted(signatureInput, "keyid"),
              algorithm |-> matchQuoted(signatureInput, "alg"),
              created |-> matchDigits(signatureInput, "created"),
              expires |-> matchDigits(signatureInput, "expires"),
              nonce |-> matchQuoted(signatureInput, "nonce"),
              tag |-> matchQuoted(signatureInput, "tag")]

(***************************************************************************)
(* lib/signature.ts: cryptographic verification                            *)
(***************************************************************************)
\* The web-bot-auth library's verify(request, verifierFromJWK(key)): it
\* resolves when the request's signature was made with the private key of
\* the public key material key.x and throws otherwise.  SignerOf gives, for
\* each signature a signer can send, the key material it verifies under; any
\* other signature verifies under no key.
SignerOf == [s \in {"sig-by-x1", "sig-by-x2"} |->
                IF s = "sig-by-x1" THEN "x1" ELSE "x2"]

libraryVerify(request, key) ==
    LET signature == headersGet(request, "signature")
    IN  /\ signature.t = "string"
        /\ signature.s \in DOMAIN SignerOf
        /\ Get(key, "x") = Str(SignerOf[signature.s])

\* Mutant: the catch reports success.
verifySignatureWithWebBotAuth_CatchTrue(request, key, directory) == TRUE

\* mockWebBotAuth throws under NODE_ENV "test"; any throw is caught and
\* gives false.  The directory parameter is not used.
verifySignatureWithWebBotAuth(request, key, directory) ==
    IF NODE_ENV = "test" THEN FALSE ELSE libraryVerify(request, key)

(***************************************************************************)
(* Results                                                                 *)
(***************************************************************************)
\* ${v} in a template literal.
Template(v) ==
    CASE v.t = "string" -> v.s
      [] v.t = "number" -> ToString(v.n)
      [] v.t = "null" -> "null"
      [] OTHER -> "undefined"

NoError == <<>>

Details(signatureFound, directoryFetched, keyMatched, signatureValid) ==
    [signatureFound |-> signatureFound, directoryFetched |-> directoryFetched,
     keyMatched |-> keyMatched, signatureValid |-> signatureValid]

\* An exception: what a function throws instead of returning.
Thrown(message) == [t |-> "thrown", message |-> message]

\* A failing ValidationResult: no metadata.
Failure(error, details) ==
    [isValid |-> FALSE, error |-> error, details |-> details,
     metadata |-> Undef]

\* Step 1 failed.
missingSignature ==
    Failure(<<"No HTTP Message Signature headers found">>,
            Details(FALSE, FALSE, FALSE, FALSE))

\* Mutant: the resolver's message is dropped.
directoryUnavailable_Generic(directoryResult) ==
    Failure(<<"Failed to fetch signatures directory: ", "unknown error">>,
            Details(TRUE, FALSE, FALSE, FALSE))

\* Step 2 failed.
directoryUnavailable(directoryResult) ==
    Failure(<<"Failed to fetch signatures directory: ">>
              \o directoryResult.error,
            Details(TRUE, FALSE, FALSE, FALSE))

\* Mutant: the milestone of step 3 is set before the key is looked up, and
\* that of step 2 after.
unknownKey_MilestonesSwapped(keyId) ==
    Failure(<<"No matching key found for kid: ", Template(keyId)>>,
            Details(TRUE, FALSE, TRUE, FALSE))

\* Step 3 failed.
unknownKey(keyId) ==
    Failure(<<"No matching key found for kid: ", Template(keyId)>>,
            Details(TRUE, TRUE, FALSE, FALSE))

\* Step 4 failed.
signatureInvalid ==
    Failure(<<"Signature verification failed">>,
            Details(TRUE, TRUE, TRUE, FALSE))

\* Mutant: the failure of step 5 is the success with isValid turned off.
purposeMismatch_WithMetadata(config, directory) ==
    [isValid |-> FALSE,
     error |-> <<"Purpose mismatch: expected \"",
                 Template(Get(config, "purpose")), "\", got \"",
                 Template(Get(directory, "purpose")), "\"">>,
     details |-> Details(TRUE, TRUE, TRUE, TRUE),
     metadata |-> [t |-> "object", kid |-> Undef,
                   purpose |-> Get(directory, "purpose"),
                   timestamp |-> now]]

\* Step 5 failed.
purposeMismatch(config, directory) ==
    Failure(<<"Purpose mismatch: expected \"",
              Template(Get(config, "purpose")), "\", got \"",
              Template(Get(directory, "purpose")), "\"">>,
            Details(TRUE, TRUE, TRUE, TRUE))

\* Mutant: the metadata echoes the expected purpose, not the directory's.
validResult_ExpectedPurpose(keyId, directory) ==
    [isValid |-> TRUE, error |-> NoError,
     details |-> Details(TRUE, TRUE, TRUE, TRUE),
     metadata |-> [t |-> "object", kid |-> keyId,
                   purpose |-> Get(validationConfig, "purpose"),
                   timestamp |-> now]]

\* The result of a successful verification; new Date() is the instant it is
\* built.
validResult(keyId, directory) ==
    [isValid |-> TRUE, error |-> NoError,
     details |-> Details(TRUE, TRUE, TRUE, TRUE),
     metadata |-> [t |-> "object", kid |-> keyId,
                   purpose |-> Get(directory, "purpose"),
                   timestamp |-> now]]

\* The catch of validateWebBotAuth: details as they stand at the throw.
validationError(message, details) ==
    Failure(<<"Validation error: ", message>>, details)

\* Mutant: the purposes are compared also when none is expected.
purposeRejected_AlwaysCompared(config, directory) ==
    Get(directory, "purpose") # Get(config, "purpose")

\* if (config.purpose && directory.purpose !== config.purpose)
purposeRejected(config, directory) ==
    /\ Truthy(Get(config, "purpose"))
    /\ Get(directory, "purpose") # Get(config, "purpose")

\* Mutant: the purpose is checked before the signature.
verifyAgainst_PurposeFirst(request, config, signatureComponents, directory) ==
    LET keyId == signatureComponents.keyId
        key == findKeyById(directory,
                           IF Truthy(keyId) THEN keyId ELSE Str(""))
    IN  IF ~Truthy(key) THEN unknownKey(keyId)
        ELSE IF purposeRejected(config, directory)
          THEN purposeMismatch(config, directory)
        ELSE IF ~verifySignatureWithWebBotAuth(request, key, directory)
          THEN signatureInvalid
        ELSE validResult(keyId, directory)

\* Steps 3 to 5 of validateWebBotAuth on a resolved directory.
verifyAgainst(request, config, signatureComponents, directory) ==
    LET keyId == signatureComponents.keyId
        key == findKeyById(directory,
                           IF Truthy(keyId) THEN keyId ELSE Str(""))
    IN  IF ~Truthy(key) THEN unknownKey(keyId)
        ELSE IF ~verifySignatureWithWebBotAuth(request, key, directory)
          THEN signatureInvalid
        ELSE IF purposeRejected(config, directory)
          THEN purposeMismatch(config, directory)
        ELSE validResult(keyId, directory)

\* The value is an exception on its way out of a function.
IsThrown(outcome) == "t" \in DOMAIN outcome /\ outcome.t = "thrown"

\* Mutant: no catch, the exception leaves validateWebBotAuth.
catchValidationError_Rethrow(outcome, details) == outcome

\* The try/catch of validateWebBotAuth: an exception becomes a result with
\* the details as they stand at the throw.
catchValidationError(outcome, details) ==
    IF IsThrown(outcome) THEN validationError(outcome.message, details)
    ELSE outcome

\* Reading a property of null or undefined throws a TypeError.
Nullish(v) == v.t \in {"null", "undefined"}

typeError(v, name) ==
    Thrown("Cannot read properties of " \o Template(v) \o " (reading '"
             \o name \o "')")

\* validateWebBotAuth from the return of fetchSignaturesDirectory on; a
\* throw of fetchSignaturesDirectory lands in the catch with only
\* signatureFound set.
validateWithDirectory(request, config, signatureComponents, directoryResult) ==
    catchValidationError(
        IF IsThrown(directoryResult) THEN directoryResult
        ELSE IF ~directoryResult.success
                  \/ ~Truthy(directoryResult.directory)
          THEN directoryUnavailable(directoryResult)
        ELSE verifyAgainst(request, config, signatureComponents,
                           directoryResult.directory),
        Details(TRUE, FALSE, FALSE, FALSE))

(***************************************************************************)
(* Bounds of the model and the inputs the environment draws from           *)
(***************************************************************************)
\* The clock advances MaxTicks times at most.
MaxTicks == 3

\* At most MaxFetches calls of fetch() in a behaviour.
MaxFetches == 2

\* The calls that can be in progress at once.
MaxCalls == 2

Slots == 1..MaxCalls

\* The slot of a caller that makes one call after the other.
Sequential == { CHOOSE c \in Slots : \A d \in Slots : c <= d }

\* The freshness window of the cache-timeout test, in milliseconds.
shortTimeout == 100

\* One step of the clock: half the test's window, so that an entry can be
\* younger than the window, exactly as old, and older.
TickMs == shortTimeout \div 2

\* cacheTimeout: number = 60 * 60 * 1000
DefaultCacheTimeout == 60 * 60 * 1000

OKP == Str("OKP")

Ed25519 == Str("Ed25519")

K1 == Jwk(OKP, Ed25519, Str("x1"), Str("k1"), Undef, Undef)

K2 == Jwk(OKP, Ed25519, Str("x2"), Str("k2"), Num(0), Undef)

\* k1, not valid before the instant shortTimeout.
K1NotYet == Jwk(OKP, Ed25519, Str("x1"), Str("k1"), Num(shortTimeout), Undef)

\* k1, not valid after the instant TickMs.
K1Expired == Jwk(OKP, Ed25519, Str("x1"), Str("k1"), Undef, Num(TickMs))

KRsa == Jwk(Str("RSA"), Undef, Undef, Str("k1"), Undef, Undef)

KCurve == Jwk(OKP, Str("P-256"), Str("x1"), Str("k1"), Undef, Undef)

KNoX == Jwk(OKP, Ed25519, Undef, Str("k1"), Undef, Undef)

\* The documents a directory URL may serve that pass validation ...
ValidDocuments ==
    { Dir(Arr(<<K1, K2>>), Str("rag")),
      Dir(Arr(<<K2>>), Undef),
      Dir(Arr(<<K1NotYet, K2>>), Str("test")),
      Dir(Arr(<<K1Expired>>), Str("rag")) }

\* ... and those that do not.
InvalidDocuments ==
    { Null,
      Dir(Undef, Str("rag")),
      Dir(Arr(<<>>), Str("rag")),
      Dir(Arr(<<KRsa>>), Undef),
      Dir(Arr(<<K1, KCurve>>), Str("rag")),
      Dir(Arr(<<K1, KNoX>>), Str("rag")) }

Documents == ValidDocuments \cup InvalidDocuments

\* What a call of fetch() settles with: a rejection, or a response with a
\* status whose json() rejects or resolves with a document.
Rejected(message) ==
    [kind |-> "rejected", message |-> message, status |-> 0,
     statusText |-> "", json |-> Undef]

Response(status, statusText, json) ==
    [kind |-> "response", message |-> "", status |-> status,
     statusText |-> statusText, json |-> json]

\* json() of a body that is not JSON rejects.
NotJson == [t |-> "rejected"]

Responses ==
    { Rejected("Network error"),
      Response(404, "Not Found", NotJson),
      Response(503, "Service Unavailable", Dir(Arr(<<K1>>), Undef)),
      Response(200, "OK", NotJson) }
    \cup { Response(200, "OK", d) : d \in Documents }

Urls == { "https://a.example/directory" }

\* A directory address fetch() rejects without a request.
NotAUrl == "not a url"

\* response.ok
ok(response) == response.status \in 200..299

KeyIdK1 == Token("", "keyid", TRUE, "k1")

\* keyid="k1",alg="ed25519",created=1234567890,expires=1234567899,tag=...
InputK1 ==
    Text(<<KeyIdK1, Token("", "alg", TRUE, "ed25519"),
           Token("", "created", FALSE, "1234567890"),
           Token("", "expires", FALSE, "1234567899"),
           Token("", "tag", TRUE, "web-bot-auth")>>)

\* keyid="k9": no directory declares k9.
InputK9 == Text(<<Token("", "keyid", TRUE, "k9")>>)

\* alg="ed25519",created="1234567890": no keyid, and a quoted created.
InputNoKeyId ==
    Text(<<Token("", "alg", TRUE, "ed25519"),
           Token("", "created", TRUE, "1234567890")>>)

\* keyid="",keyid=k9,x-keyid="k2",keyid="k1": the first two do not match
\* the pattern, the third does, as the pattern is not anchored.
InputPrefixed ==
    Text(<<Token("", "keyid", TRUE, ""), Token("", "keyid", FALSE, "k9"),
           Token("x-", "keyid", TRUE, "k2"), KeyIdK1>>)

Req(headers) == [method |-> "GET", url |-> "https://example.com/test",
                 headers |-> headers]

ContentType == "content-type" :> Str("application/json")

Signed(signature, signatureInput) ==
    Req(("signature" :> signature) @@ ("signature-input" :> signatureInput))

\* Requests with a header missing or empty ...
UnsignedRequests ==
    { Req(ContentType),
      Req(ContentType @@ ("signature" :> Str("sig-by-x1"))),
      Req("signature-input" :> InputK1),
      Signed(Str(""), InputK1),
      Signed(Str("sig-by-x1"), Text(<<>>)) }

\* ... and with both.
SignedRequests ==
    { Signed(Str("sig-by-x1"), InputK1),
      Signed(Str("garbage"), InputK1),
      Signed(Str("sig-by-x1"), InputK9),
      Signed(Str("sig-by-x1"), InputNoKeyId),
      Signed(Str("sig-by-x2"), InputPrefixed) }

Requests == UnsignedRequests \cup SignedRequests

Config(directoryUrl, purpose, cacheTimeout) ==
    [t |-> "object", directoryUrl |-> directoryUrl, purpose |-> purpose,
     cacheTimeout |-> cacheTimeout]

Purposes == { Undef, Str(""), Str("rag") }

CacheTimeouts == { Undef, Num(0), Num(shortTimeout) }

\* The configurations a verifier is set up with: every purpose and window
\* on a directory address, and one whose address is not a URL.
Configs ==
    { Config(u, p, w) : u \in Urls, p \in Purposes, w \in CacheTimeouts }
    \cup { Config(NotAUrl, Str("rag"), Undef) }

\* What a caller without type checking may pass for the configuration.
MalformedConfigs == { Null }

\* The configuration of the test suite, which runs under NODE_ENV "test".
testConfig ==
    Config("https://example.com/.well-known/http-message-signatures-directory",
           Str("test"), Num(1000))

\* A call: the operation and its arguments, where it stands (pc), the locals
\* of fetchSignaturesDirectory while fetch() is pending (timestamp), the
\* calls of fetch() and of verifySignatureWithWebBotAuth it made, what its
\* fetch() settled with, and what fetchSignaturesDirectory and the operation
\* returned.
Call(pc, op, request, url, cacheTimeout, timestamp, fetches, verifications, response, directoryResult, result) ==
    [pc |-> pc, op |-> op, request |-> request, url |-> url,
     cacheTimeout |-> cacheTimeout, timestamp |-> timestamp,
     fetches |-> fetches, verifications |-> verifications,
     response |-> response, directoryResult |-> directoryResult,
     result |-> result]

\* No call yet.
Idle == Call("idle", "none", Null, "", Undef, 0, 0, 0, Undef, Undef, Undef)

(***************************************************************************)
(* lib/directory.ts: fetchSignaturesDirectory                              *)
(***************************************************************************)
DirectoryFailure(error, url, timestamp) ==
    [t |-> "object", success |-> FALSE, directory |-> Undef,
     error |-> error, url |-> url, timestamp |-> timestamp]

DirectorySuccess(directory, url, timestamp) ==
    [t |-> "object", success |-> TRUE, directory |-> directory,
     error |-> NoError, url |-> url, timestamp |-> timestamp]

\* Mutant: the default is taken with ||, so that 0 reads as no window.
effectiveTimeout_ZeroIsDefault(cacheTimeout) ==
    IF ~Truthy(cacheTimeout) THEN DefaultCacheTimeout ELSE cacheTimeout.n

\* The default of the cacheTimeout parameter applies to undefined.
effectiveTimeout(cacheTimeout) ==
    IF cacheTimeout = Undef THEN DefaultCacheTimeout ELSE cacheTimeout.n

\* Mutant: the window is that of the verifier's configuration, whatever
\* window the call supplies.
cacheHit_ConfiguredWindow(cache, url, timestamp, cacheTimeout) ==
    /\ url \in DOMAIN cache
    /\ timestamp - cache[url].timestamp
         < effectiveTimeout(Get(validationConfig, "cacheTimeout"))

\* Mutant: the comparison is reversed.
cacheHit_Reversed(cache, url, timestamp, cacheTimeout) ==
    /\ url \in DOMAIN cache
    /\ timestamp - cache[url].timestamp > effectiveTimeout(cacheTimeout)

\* Mutant: an entry exactly as old as the window is still fresh.
cacheHit_NotStrict(cache, url, timestamp, cacheTimeout) ==
    /\ url \in DOMAIN cache
    /\ timestamp - cache[url].timestamp <= effectiveTimeout(cacheTimeout)

\* cached && timestamp - cached.timestamp < cacheTimeout
cacheHit(cache, url, timestamp, cacheTimeout) ==
    /\ url \in DOMAIN cache
    /\ timestamp - cache[url].timestamp < effectiveTimeout(cacheTimeout)

\* Mutant: the keys validateJWK rejects are dropped from the document
\* before it is validated.
fetchBody_DropsInvalidKeys(url, timestamp, response) ==
    IF response.kind = "rejected" THEN Thrown(response.message)
    ELSE IF ~ok(response)
      THEN DirectoryFailure(<<"Failed to fetch directory: ",
                              ToString(response.status), " ",
                              response.statusText>>, url, timestamp)
    ELSE IF response.json = NotJson
      THEN Thrown("Unexpected token < in JSON at position 0")
    ELSE LET repaired ==
                 IF Get(response.json, "keys").t # "array"
                   THEN response.json
                   ELSE [response.json EXCEPT
                           !.keys.items =
                               SelectSeq(@, LAMBDA key :
                                               validateJWK(key).isValid)]
             validationResult == validateDirectoryStructure(repaired)
         IN  IF ~validationResult.isValid
               THEN DirectoryFailure(<<"Invalid directory structure: ">>
                                       \o validationResult.error,
                                     url, timestamp)
               ELSE DirectorySuccess(repaired, url, timestamp)

\* The try block of fetchSignaturesDirectory after the cache miss, once
\* fetch() has settled: a result, or the exception of a rejected await.
fetchBody(url, timestamp, response) ==
    IF response.kind = "rejected" THEN Thrown(response.message)
    ELSE IF ~ok(response)
      THEN DirectoryFailure(<<"Failed to fetch directory: ",
                              ToString(response.status), " ",
                              response.statusText>>, url, timestamp)
    ELSE IF response.json = NotJson
      THEN Thrown("Unexpected token < in JSON at position 0")
    ELSE LET validationResult == validateDirectoryStructure(response.json)
         IN  IF ~validationResult.isValid
               THEN DirectoryFailure(<<"Invalid directory structure: ">>
                                       \o validationResult.error,
                                     url, timestamp)
               ELSE DirectorySuccess(response.json, url, timestamp)

\* Mutant: no catch, the exception leaves fetchSignaturesDirectory.
catchFetchError_Rethrow(outcome, url, timestamp) == outcome

\* The catch of fetchSignaturesDirectory.
catchFetchError(outcome, url, timestamp) ==
    IF outcome.t = "thrown"
      THEN DirectoryFailure(<<"Error fetching directory: ", outcome.message>>,
                            url, timestamp)
      ELSE outcome

\* Mutant: a failed refetch falls back to the entry the cache still holds.
fetchResult_StaleFallback(url, timestamp, response) ==
    LET outcome ==
            catchFetchError(fetchBody(url, timestamp, response), url,
                            timestamp)
    IN  IF ~outcome.success /\ url \in DOMAIN directoryCache
          THEN DirectorySuccess(directoryCache[url].data, url,
                                directoryCache[url].timestamp)
          ELSE outcome

\* What fetchSignaturesDirectory returns (or throws) after a cache miss.
fetchResult(url, timestamp, response) ==
    catchFetchError(fetchBody(url, timestamp, response), url, timestamp)

\* What it returns on a cache hit.
cachedResult(cache, url) ==
    DirectorySuccess(cache[url].data, url, cache[url].timestamp)

\* Mutant: the timestamp of the entry is the instant the response arrived.
cacheAfter_ArrivalInstant(cache, directoryResult) ==
    IF directoryResult.t = "object" /\ directoryResult.success
      THEN (directoryResult.url :>
              [data |-> directoryResult.directory, timestamp |-> now])
             @@ cache
      ELSE cache

\* Mutant: a fetch that fails evicts the entry of its URL.
cacheAfter_EvictOnFailure(cache, directoryResult) ==
    IF directoryResult.t = "object" /\ directoryResult.success
      THEN (directoryResult.url :>
              [data |-> directoryResult.directory,
               timestamp |-> directoryResult.timestamp]) @@ cache
    ELSE IF directoryResult.t = "object"
      THEN [url \in DOMAIN cache \ {directoryResult.url} |-> cache[url]]
      ELSE cache

\* Mutant: the keys fetched are added to those of the entry in the cache.
cacheAfter_MergeKeys(cache, directoryResult) ==
    IF directoryResult.t = "object" /\ directoryResult.success
      THEN (directoryResult.url :>
              [data |->
                 IF directoryResult.url \in DOMAIN cache
                   THEN [directoryResult.directory EXCEPT
                           !.keys.items =
                               cache[directoryResult.url].data.keys.items
                                 \o @]
                   ELSE directoryResult.directory,
               timestamp |-> directoryResult.timestamp]) @@ cache
      ELSE cache

\* Mutant: the key of the entry is the URL without its trailing slash.
cacheAfter_TrailingSlashCut(cache, directoryResult) ==
    IF directoryResult.t = "object" /\ directoryResult.success
      THEN ((IF directoryResult.url = "https://a.example/directory/"
               THEN "https://a.example/directory"
               ELSE directoryResult.url) :>
              [data |-> directoryResult.directory,
               timestamp |-> directoryResult.timestamp]) @@ cache
      ELSE cache

\* Mutant: an entry is not replaced by one with an older timestamp.
cacheAfter_KeepNewest(cache, directoryResult) ==
    IF /\ directoryResult.t = "object"
       /\ directoryResult.success
       /\ directoryResult.url \in DOMAIN cache
          => cache[directoryResult.url].timestamp
               <= directoryResult.timestamp
      THEN (directoryResult.url :>
              [data |-> directoryResult.directory,
               timestamp |-> directoryResult.timestamp]) @@ cache
      ELSE cache

\* directoryCache.set(url, { data: directory, timestamp }), reached only
\* when the try block ends in success.
cacheAfter(cache, directoryResult) ==
    IF directoryResult.t = "object" /\ directoryResult.success
      THEN (directoryResult.url :>
              [data |-> directoryResult.directory,
               timestamp |-> directoryResult.timestamp]) @@ cache
      ELSE cache

\* Mutant: the debug variant keeps the verdict and the message only.
withDebug_VerdictOnly(result, request, config) ==
    [isValid |-> result.isValid, error |-> result.error,
     details |-> Details(FALSE, FALSE, FALSE, FALSE), metadata |-> Undef,
     debug |-> [headers |-> request.headers, url |-> request.url,
                method |-> request.method, timestamp |-> now,
                config |-> config]]

\* validateWithDebug after its await: { ...result, debug }.
withDebug(result, request, config) ==
    [debug |-> [headers |-> request.headers, url |-> request.url,
                method |-> request.method, timestamp |-> now,
                config |-> config]] @@ result

\* What the operation makes of the ValidationResult of validateWebBotAuth:
\* validateWithDebug adds the debug record, validateWebBotAuth (called
\* directly, or by validateBatch for each request) returns it as it is.
returned(op, request, result) ==
    IF op = "validateWithDebug"
      THEN withDebug(result, request, validationConfig)
      ELSE result

\* What the operation returns once fetchSignaturesDirectory has: the
\* ValidationResult of validateWebBotAuth, and nothing more for a direct
\* call of fetchSignaturesDirectory.
resultOf(op, request, directoryResult) ==
    IF op = "fetchSignaturesDirectory" THEN Undef
    ELSE returned(op, request,
                  validateWithDirectory(request, validationConfig,
                                        extractSignatureComponents(request),
                                        directoryResult))

\* Mutant: the signature is verified under every key of the directory
\* before the key is looked up.
verificationsOf_BeforeLookup(op, request, directoryResult) ==
    IF op = "fetchSignaturesDirectory" THEN 0
    ELSE IF \/ IsThrown(directoryResult)
            \/ ~directoryResult.success
            \/ ~Truthy(directoryResult.directory)
      THEN 0
    ELSE 1

\* The calls of verifySignatureWithWebBotAuth the operation makes once
\* fetchSignaturesDirectory has returned: one, in step 4, when steps 2 and
\* 3 have not returned before.
verificationsOf(op, request, directoryResult) ==
    IF op = "fetchSignaturesDirectory" THEN 0
    ELSE IF \/ IsThrown(directoryResult)
            \/ ~directoryResult.success
            \/ ~Truthy(directoryResult.directory)
      THEN 0
    ELSE LET keyId == extractSignatureComponents(request).keyId
         IN  IF ~Truthy(findKeyById(directoryResult.directory,
                                    IF Truthy(keyId) THEN keyId ELSE Str("")))
               THEN 0
               ELSE 1

\* The first half of fetchSignaturesDirectory, entered by operation op:
\* Date.now(), the cache lookup and, on a miss, the call of fetch().  The
\* call as it stands when control comes back to the caller.
resolveStarted(op, request, url, cacheTimeout) ==
    IF cacheHit(directoryCache, url, now, cacheTimeout)
      THEN Call("done", op, request, url, cacheTimeout, 0, 0,
                verificationsOf(op, request,
                                cachedResult(directoryCache, url)),
                Undef, cachedResult(directoryCache, url),
                resultOf(op, request, cachedResult(directoryCache, url)))
      ELSE Call("fetch", op, request, url, cacheTimeout, now, 1, 0, Undef,
                Undef, Undef)

\* Steps 1 and 2 of validateWebBotAuth up to the call of fetch(), entered
\* by operation op.
verificationStarted(op, request) ==
    IF ~Truthy(extractSignatureComponents(request))
      THEN Call("done", op, request, "", Undef, 0, 0, 0, Undef, Undef,
                returned(op, request, missingSignature))
    ELSE IF Nullish(validationConfig)
      THEN Call("done", op, request, "", Undef, 0, 0, 0, Undef, Undef,
                returned(op, request,
                         catchValidationError(
                             typeError(validationConfig, "directoryUrl"),
                             Details(TRUE, FALSE, FALSE, FALSE))))
    ELSE resolveStarted(op, request, validationConfig.directoryUrl,
                        Get(validationConfig, "cacheTimeout"))

\* The call started takes slot c; fetch() is called when it had a miss.
resolveStart(c, started) ==
    /\ fetchCount + started.fetches <= MaxFetches
    /\ fetchCount' = fetchCount + started.fetches
    /\ calls' = [calls EXCEPT ![c] = started]

\* Mutant: the results are collected as the verifications complete.
PromiseAll_AsCompleted(results, completed) ==
    [k \in 1..Len(completed) |-> results[completed[k]]]

\* Promise.all of the verifications of a batch: the results by position,
\* whatever the order of completion was.
PromiseAll(results, completed) == results

\* The call b of validateBatch once its verifications stand as in
\* callsAfter, completed in the order completedAfter: it returns when the
\* last one has.
batchAfter(b, callsAfter, completedAfter) ==
    IF b.pc # "pending" THEN b
    ELSE IF \E i \in 1..Len(b.requests) : callsAfter[i].pc # "done"
      THEN [b EXCEPT !.completed = completedAfter]
    ELSE [b EXCEPT
            !.pc = "done",
            !.completed = completedAfter,
            !.results =
                PromiseAll([i \in 1..Len(b.requests) |->
                                callsAfter[i].result], completedAfter)]

(***************************************************************************)
(* Operations                                                              *)
(***************************************************************************)
\* A caller resolves a directory.
fetchSignaturesDirectory(c, url, cacheTimeout) ==
    /\ calls[c].pc # "fetch"
    /\ resolveStart(c, resolveStarted("fetchSignaturesDirectory", Null, url,
                                      cacheTimeout))
    /\ UNCHANGED <<now, NODE_ENV, validationConfig, directoryCache, batch,
                   lookup, stats>>

\* A caller verifies a request under the verifier's configuration.
validateWebBotAuth(c, request) ==
    /\ calls[c].pc # "fetch"
    /\ resolveStart(c, verificationStarted("validateWebBotAuth", request))
    /\ UNCHANGED <<now, NODE_ENV, validationConfig, directoryCache, batch,
                   lookup, stats>>

\* Mutant: a fetch() that fails is tried once more.
fetchSettles_RetryOnce(c, response) ==
    /\ calls[c].pc = "fetch"
    /\ calls[c].url = NotAUrl => response.kind = "rejected"
    /\ LET directoryResult ==
               fetchResult(calls[c].url, calls[c].timestamp, response)
           callsAfter ==
               [calls EXCEPT ![c] =
                  [@ EXCEPT
                     !.pc = "done",
                     !.timestamp = 0,
                     !.response = response,
                     !.verifications =
                         verificationsOf(calls[c].op, calls[c].request,
                                         directoryResult),
                     !.directoryResult = directoryResult,
                     !.result = resultOf(calls[c].op, calls[c].request,
                                         directoryResult)]]
       IN  IF ~directoryResult.success /\ calls[c].fetches = 1
             THEN /\ calls' = [calls EXCEPT ![c].fetches = 2]
                  /\ fetchCount' = fetchCount + 1
                  /\ UNCHANGED <<directoryCache, batch>>
             ELSE /\ directoryCache' = cacheAfter(directoryCache,
                                                  directoryResult)
                  /\ calls' = callsAfter
                  /\ batch' = batchAfter(batch, callsAfter,
                                         Append(batch.completed, c))
                  /\ fetchCount' = fetchCount
    /\ UNCHANGED <<now, NODE_ENV, validationConfig, lookup, stats>>

\* The pending fetch() of the call in slot c settles and the call runs to
\* its end; when it is the last verification of a batch, validateBatch
\* returns.
fetchSettles(c, response) ==
    /\ calls[c].pc = "fetch"
    /\ calls[c].url = NotAUrl => response.kind = "rejected"
    /\ LET directoryResult ==
               fetchResult(calls[c].url, calls[c].timestamp, response)
           callsAfter ==
               [calls EXCEPT ![c] =
                  [@ EXCEPT
                     !.pc = "done",
                     !.timestamp = 0,
                     !.response = response,
                     !.verifications =
                         verificationsOf(calls[c].op, calls[c].request,
                                         directoryResult),
                     !.directoryResult = directoryResult,
                     !.result = resultOf(calls[c].op, calls[c].request,
                                         directoryResult)]]
       IN  /\ directoryCache' = cacheAfter(directoryCache, directoryResult)
           /\ calls' = callsAfter
           /\ batch' = batchAfter(batch, callsAfter,
                                  Append(batch.completed, c))
    /\ UNCHANGED <<now, NODE_ENV, validationConfig, fetchCount, lookup,
                   stats>>

\* Mutant: only the entries stored before this instant are evicted.
clearDirectoryCache_StaleOnly ==
    /\ directoryCache' =
         [url \in {u \in DOMAIN directoryCache :
                     directoryCache[u].timestamp = now}
            |-> directoryCache[url]]
    /\ UNCHANGED <<now, NODE_ENV, validationConfig, fetchCount, calls,
                   batch, lookup, stats>>

\* directoryCache.clear()
clearDirectoryCache ==
    /\ directoryCache' = << >>
    /\ UNCHANGED <<now, NODE_ENV, validationConfig, fetchCount, calls,
                   batch, lookup, stats>>

\* Mutant: the size is a count of the fetches, not of the entries.
getCacheStats_CountsFetches(cache) ==
    [size |-> fetchCount, entries |-> DOMAIN cache]

\* { size: directoryCache.size, entries: Array.from(directoryCache.keys()) }:
\* the URLs that have an entry; their order in the array, that of their
\* insertion, is left out.
getCacheStats(cache) ==
    [size |-> Cardinality(DOMAIN cache), entries |-> DOMAIN cache]

\* A caller asks for the cache statistics.
getCacheStatsCall ==
    /\ stats' = getCacheStats(directoryCache)
    /\ UNCHANGED <<now, NODE_ENV, validationConfig, directoryCache,
                   fetchCount, calls, batch, lookup>>

\* Time passes.
Tick ==
    /\ now < MaxTicks * TickMs
    /\ now' = now + TickMs
    /\ UNCHANGED <<NODE_ENV, validationConfig, directoryCache, fetchCount,
                   calls, batch, lookup, stats>>

\* No call of validateBatch yet.
NoBatch == [pc |-> "idle", requests |-> <<>>, completed |-> <<>>,
            results |-> <<>>]

\* No call of findKeyById yet.
NoLookup == [pc |-> "idle", directory |-> Undef, kid |-> Undef, key |-> Undef]

\* No call of getCacheStats yet.
NoStats == Undef

\* The module as loaded: an empty cache and nothing in progress.
Loaded ==
    /\ now = 0
    /\ directoryCache = << >>
    /\ fetchCount = 0
    /\ calls = [c \in Slots |-> Idle]
    /\ batch = NoBatch
    /\ lookup = NoLookup
    /\ stats = NoStats

Init ==
    /\ Loaded
    /\ \/ /\ NODE_ENV = "production"
          /\ validationConfig \in Configs \cup MalformedConfigs
       \/ NODE_ENV = "test" /\ validationConfig = testConfig

\* One caller, one call after the other.
Next ==
    \/ \E c \in Sequential, url \in Urls \cup {NotAUrl},
          cacheTimeout \in CacheTimeouts :
         fetchSignaturesDirectory(c, url, cacheTimeout)
    \/ \E c \in Sequential, request \in Requests :
         validateWebBotAuth(c, request)
    \/ \E c \in Sequential, response \in Responses :
         fetchSettles(c, response)
    \/ clearDirectoryCache
    \/ Tick

Spec == Init /\ [][Next]_vars
(***************************************************************************)
(* Vocabulary of the properties                                            *)
(***************************************************************************)
\* The call of slot c has returned.
Done(c) == calls[c].pc = "done"

\* The call of slot c is a verification that has returned.
Validated(c) == Done(c) /\ calls[c].op = "validateWebBotAuth"

\* This step returns the call of slot c.
Returns(c) == calls'[c].pc = "done" /\ calls'[c] # calls[c]

\* The request carries the header at all.
HasHeader(request, name) == name \in DOMAIN request.headers

\* The call of slot c got a directory from the resolver.
Resolved(c) ==
    /\ calls[c].directoryResult.t = "object"
    /\ calls[c].directoryResult.success

\* The keyid the verifier reads in the signature-input of a signed request.
KeyIdOf(request) == extractSignatureComponents(request).keyId

\* The keys of the directory that declare the identifier.
KeysNamed(directory, keyId) ==
    {i \in 1..Len(directory.keys.items) :
        Get(directory.keys.items[i], "kid") = keyId}

\* The failure kinds, told by the head of the message.
IsMissingSignature(result) ==
    /\ ~result.isValid
    /\ result.error = <<"No HTTP Message Signature headers found">>

IsDirectoryUnavailable(result) ==
    /\ ~result.isValid
    /\ Head(result.error) = "Failed to fetch signatures directory: "

IsUnknownKey(result) ==
    /\ ~result.isValid
    /\ Head(result.error) = "No matching key found for kid: "

IsPurposeMismatch(result) ==
    /\ ~result.isValid
    /\ Head(result.error) = "Purpose mismatch: expected \""

\* The signature of the request verifies under the first key of the
\* directory that declares the request's keyid.
SignatureVerifies(request, directory) ==
    /\ NODE_ENV # "test"
    /\ KeysNamed(directory, KeyIdOf(request)) # {}
    /\ LET i == CHOOSE i \in KeysNamed(directory, KeyIdOf(request)) :
                  \A j \in KeysNamed(directory, KeyIdOf(request)) : i <= j
           signature == request.headers["signature"]
       IN  /\ signature.s \in DOMAIN SignerOf
           /\ Str(SignerOf[signature.s]) = directory.keys.items[i].x

(***************************************************************************)
(* C1.  A request that lacks the signature header, the signature-input     *)
(* header or both is rejected with the missing-signature error and all     *)
(* four milestones false, whatever the configuration, the cache and the    *)
(* network are.                                                            *)
(***************************************************************************)
C1_MissingSignature ==
    \A c \in Slots :
        /\ Validated(c)
        /\ \/ ~HasHeader(calls[c].request, "signature")
           \/ ~HasHeader(calls[c].request, "signature-input")
        => /\ IsMissingSignature(calls[c].result)
           /\ calls[c].result.details = Details(FALSE, FALSE, FALSE, FALSE)

\* A request with a signature and no signature-input was rejected while the
\* cache held a directory.
C1_Witness ==
    \E c \in Slots :
        /\ Validated(c)
        /\ HasHeader(calls[c].request, "signature")
        /\ ~HasHeader(calls[c].request, "signature-input")
        /\ DOMAIN directoryCache # {}

(***************************************************************************)
(* C2.  A signed request whose keyid is the identifier of no key of the    *)
(* resolved directory fails with the unknown-key error and the milestones  *)
(* signatureFound and directoryFetched true, keyMatched and signatureValid *)
(* false.                                                                  *)
(***************************************************************************)
C2_UnknownKey ==
    \A c \in Slots :
        /\ Validated(c)
        /\ Resolved(c)
        /\ KeysNamed(calls[c].directoryResult.directory,
                     KeyIdOf(calls[c].request)) = {}
        => /\ IsUnknownKey(calls[c].result)
           /\ calls[c].result.details = Details(TRUE, TRUE, FALSE, FALSE)

\* A request naming k9 was rejected against a directory that declares other
\* keys.
C2_Witness ==
    \E c \in Slots :
        /\ Validated(c)
        /\ Resolved(c)
        /\ KeyIdOf(calls[c].request) = Str("k9")
        /\ IsUnknownKey(calls[c].result)

(***************************************************************************)
(* C3.  A key whose nbf is later than the verification instant, or whose   *)
(* exp is earlier, is never accepted: a signed request whose keyid names   *)
(* only such keys fails with the unknown-key outcome, keyMatched false.    *)
(***************************************************************************)
OutsideValidity(key, time) ==
    \/ key.nbf.t = "number" /\ key.nbf.n > time
    \/ key.exp.t = "number" /\ key.exp.n < time

C3_IneligibleKeyRejected ==
    [][\A c \in Slots :
          /\ Returns(c)
          /\ calls'[c].op = "validateWebBotAuth"
          /\ calls'[c].directoryResult.t = "object"
          /\ calls'[c].directoryResult.success
          /\ LET directory == calls'[c].directoryResult.directory
                 named == KeysNamed(directory, KeyIdOf(calls'[c].request))
             IN  /\ named # {}
                 /\ \A i \in named :
                       OutsideValidity(directory.keys.items[i], now')
          => /\ IsUnknownKey(calls'[c].result)
             /\ ~calls'[c].result.details.keyMatched]_vars

(***************************************************************************)
(* C4.  The purpose check runs only after cryptographic verification has   *)
(* succeeded: a purpose-mismatch failure has all four milestones true and  *)
(* a signature that verifies; and a valid signature under an expected      *)
(* purpose that differs from the directory's purpose, or from its absence, *)
(* gives that failure.  As claimed, for every expected purpose the         *)
(* configuration holds ...                                                 *)
(***************************************************************************)
PurposeAfterSignature(c) ==
    IsPurposeMismatch(calls[c].result)
    => /\ calls[c].result.details = Details(TRUE, TRUE, TRUE, TRUE)
       /\ Resolved(c)
       /\ SignatureVerifies(calls[c].request,
                            calls[c].directoryResult.directory)

C4_AnyExpectedPurpose ==
    \A c \in Slots :
        Validated(c)
        => /\ PurposeAfterSignature(c)
           /\ /\ Resolved(c)
              /\ SignatureVerifies(calls[c].request,
                                   calls[c].directoryResult.directory)
              /\ validationConfig.purpose # Undef
              /\ validationConfig.purpose
                   # calls[c].directoryResult.directory.purpose
              => IsPurposeMismatch(calls[c].result)

\* ... and as the code has it, for every expected purpose that is not the
\* empty string.
C4_NonEmptyExpectedPurpose ==
    \A c \in Slots :
        Validated(c)
        => /\ PurposeAfterSignature(c)
           /\ /\ Resolved(c)
              /\ SignatureVerifies(calls[c].request,
                                   calls[c].directoryResult.directory)
              /\ validationConfig.purpose \notin {Undef, Str("")}
              /\ validationConfig.purpose
                   # calls[c].directoryResult.directory.purpose
              => IsPurposeMismatch(calls[c].result)

\* A validly signed request failed on the purpose against a directory that
\* declares none.
C4_Witness ==
    \E c \in Slots :
        /\ Validated(c)
        /\ IsPurposeMismatch(calls[c].result)
        /\ calls[c].directoryResult.directory.purpose = Undef

(***************************************************************************)
(* C5.  A successful verification echoes, in its metadata, the keyid read  *)
(* from the request's signature-input and the declared purpose of the      *)
(* directory resolved for that verification.                               *)
(***************************************************************************)
C5_MetadataEchoes ==
    \A c \in Slots :
        Validated(c) /\ calls[c].result.isValid
        => /\ Resolved(c)
           /\ calls[c].result.metadata.kid = KeyIdOf(calls[c].request)
           /\ calls[c].result.metadata.kid.t = "string"
           /\ calls[c].result.metadata.purpose
                = calls[c].directoryResult.directory.purpose

\* A request whose signature-input holds several keyid items was accepted
\* under a configuration that expects no purpose.
C5_Witness ==
    \E c \in Slots :
        /\ Validated(c)
        /\ calls[c].result.isValid
        /\ calls[c].result.metadata.kid = Str("k2")
        /\ calls[c].result.metadata.purpose = Str("rag")
        /\ validationConfig.purpose = Undef

(***************************************************************************)
(* Vocabulary of the resolver's properties                                 *)
(***************************************************************************)
\* This step enters fetchSignaturesDirectory for slot c, directly or from
\* validateWebBotAuth.
Starts(c) ==
    /\ calls[c].pc # "fetch"
    /\ calls'[c] # calls[c]
    /\ calls'[c].url # ""

\* This step settles the pending fetch() of slot c.
Settles(c) == calls[c].pc = "fetch" /\ calls'[c].pc = "done"

\* The freshness window a call asks for.
Window(cacheTimeout) ==
    IF cacheTimeout.t = "number" THEN cacheTimeout.n ELSE 3600000

\* The cache holds an entry for the URL that is younger than the window.
Fresh(url, cacheTimeout) ==
    /\ url \in DOMAIN directoryCache
    /\ now - directoryCache[url].timestamp < Window(cacheTimeout)

\* A key as the data model wants it.
WellFormedKey(key) ==
    /\ key.t = "object"
    /\ key.kty = Str("OKP")
    /\ key.crv = Str("Ed25519")
    /\ key.x.t = "string" /\ key.x.s # ""
    /\ key.kid.t = "string" /\ key.kid.s # ""
    /\ key.nbf.t \in {"undefined", "number"}
    /\ key.exp.t \in {"undefined", "number"}

\* A directory as the data model wants it: keys, at least one, all well
\* formed.
WellFormedDirectory(data) ==
    /\ data.t = "object"
    /\ data.keys.t = "array"
    /\ Len(data.keys.items) >= 1
    /\ \A i \in 1..Len(data.keys.items) : WellFormedKey(data.keys.items[i])

\* fetch() gave a 2xx response whose body parses.
GotDocument(response) ==
    /\ response.kind = "response"
    /\ response.status >= 200 /\ response.status <= 299
    /\ response.json # NotJson

\* The refetch failed: fetch() rejected, the status is not 2xx, the body
\* does not parse or the document is no directory.
FetchFailed(response) ==
    ~(GotDocument(response) /\ WellFormedDirectory(response.json))

\* The message holds the piece.
Mentions(error, piece) == \E i \in 1..Len(error) : error[i] = piece

\* The call of slot c returned a structured failure of the resolver.
ResolverFailure(directoryResult) ==
    /\ directoryResult.t = "object"
    /\ ~directoryResult.success
    /\ directoryResult.error # <<>>
    /\ directoryResult.directory = Undef

(***************************************************************************)
(* C6.  A fetch that brings a structurally valid directory makes the       *)
(* resolve succeed with that directory, and a resolve of the same URL      *)
(* within the freshness window returns the cached directory without a      *)
(* call of fetch(): the fetch count stays where it was.                    *)
(***************************************************************************)
C6_CachedWithinWindow ==
    [][\A c \in Slots :
          /\ Settles(c) /\ GotDocument(calls'[c].response)
                /\ WellFormedDirectory(calls'[c].response.json)
             => /\ calls'[c].directoryResult.t = "object"
                /\ calls'[c].directoryResult.success
                /\ calls'[c].directoryResult.directory
                     = calls'[c].response.json
                /\ directoryCache'[calls'[c].url].data
                     = calls'[c].response.json
          /\ Starts(c) /\ Fresh(calls'[c].url, calls'[c].cacheTimeout)
             => /\ calls'[c].pc = "done"
                /\ calls'[c].directoryResult.t = "object"
                /\ calls'[c].directoryResult.success
                /\ calls'[c].directoryResult.directory
                     = directoryCache[calls'[c].url].data
                /\ fetchCount' = fetchCount]_vars

\* A second resolve, some time after the first, was served from the cache
\* and fetch() has been called once.
C6_Witness ==
    \E c \in Slots :
        /\ Done(c)
        /\ calls[c].op = "fetchSignaturesDirectory"
        /\ calls[c].fetches = 0
        /\ calls[c].directoryResult.success
        /\ now > calls[c].directoryResult.timestamp
        /\ fetchCount = 1

(***************************************************************************)
(* C7.  A resolve is served from the cache exactly when the cache holds an *)
(* entry for the URL with now - entryTimestamp < freshnessWindow (an       *)
(* elapsed time equal to the window is a miss); otherwise fetch() is       *)
(* called, once.  With a window of 100 ms, resolves at 0 and at 150 ms     *)
(* make 2 calls of fetch().                                                *)
(***************************************************************************)
C7_HitExactlyWhenFresh ==
    [][\A c \in Slots :
          Starts(c)
          => IF Fresh(calls'[c].url, calls'[c].cacheTimeout)
               THEN /\ calls'[c].pc = "done"
                    /\ calls'[c].fetches = 0
                    /\ fetchCount' = fetchCount
               ELSE /\ calls'[c].pc = "fetch"
                    /\ calls'[c].fetches = 1
                    /\ fetchCount' = fetchCount + 1]_vars

\* With a window of 100 ms, the entry of a resolve at 0 is there and a
\* resolve at 150 ms has made the second call of fetch().
C7_Witness ==
    \E c \in Slots :
        /\ calls[c].pc = "fetch"
        /\ calls[c].cacheTimeout = Num(100)
        /\ calls[c].timestamp = 150
        /\ calls[c].url \in DOMAIN directoryCache
        /\ directoryCache[calls[c].url].timestamp = 0
        /\ fetchCount = 2

(***************************************************************************)
(* C8.  Fail closed: when the entry of the URL is stale for the calling    *)
(* resolve and the refetch fails, the resolve returns a failure and never  *)
(* the stale directory, and a verification that made it fails with the     *)
(* directory-unavailable outcome.                                          *)
(***************************************************************************)
C8_FailClosed ==
    [][\A c \in Slots :
          /\ Settles(c)
          /\ calls[c].url \in DOMAIN directoryCache
          /\ calls[c].timestamp - directoryCache[calls[c].url].timestamp
                >= Window(calls[c].cacheTimeout)
          /\ FetchFailed(calls'[c].response)
          => /\ ResolverFailure(calls'[c].directoryResult)
             /\ calls'[c].op = "validateWebBotAuth"
                => /\ IsDirectoryUnavailable(calls'[c].result)
                   /\ calls'[c].result.details
                        = Details(TRUE, FALSE, FALSE, FALSE)]_vars

\* A verification failed on a refetch while the cache still holds the
\* entry that was stale for it.
C8_Witness ==
    \E c \in Slots :
        /\ Validated(c)
        /\ calls[c].response # Undef
        /\ IsDirectoryUnavailable(calls[c].result)
        /\ calls[c].url \in DOMAIN directoryCache
        /\ calls[c].directoryResult.timestamp
             - directoryCache[calls[c].url].timestamp
             >= Window(calls[c].cacheTimeout)

(***************************************************************************)
(* C9.  The resolver never throws: when fetch() rejects, the response is   *)
(* not 2xx, the body does not parse or the directory is structurally       *)
(* invalid, fetchSignaturesDirectory returns success false, a message and  *)
(* no directory; the message of a non-2xx failure carries the status.      *)
(***************************************************************************)
C9_FailuresAreResults ==
    \A c \in Slots :
        Done(c) /\ calls[c].response # Undef /\ FetchFailed(calls[c].response)
        => /\ ResolverFailure(calls[c].directoryResult)
           /\ calls[c].response.kind = "response"
                /\ calls[c].response.status \notin 200..299
              => Mentions(calls[c].directoryResult.error,
                          ToString(calls[c].response.status))

\* A resolve has returned after json() rejected.
C9_Witness ==
    \E c \in Slots :
        /\ Done(c)
        /\ calls[c].response = Response(200, "OK", NotJson)
        /\ ~calls[c].directoryResult.success

(***************************************************************************)
(* C10.  A fetched directory whose keys array is empty makes the resolve   *)
(* fail with a schema error whose message mentions "empty", and nothing    *)
(* is stored in the cache.                                                 *)
(***************************************************************************)
C10_EmptyKeysRejected ==
    [][\A c \in Slots :
          /\ Settles(c)
          /\ GotDocument(calls'[c].response)
          /\ calls'[c].response.json.t = "object"
          /\ calls'[c].response.json.keys.t = "array"
          /\ Len(calls'[c].response.json.keys.items) = 0
          => /\ ResolverFailure(calls'[c].directoryResult)
             /\ Head(calls'[c].directoryResult.error)
                  = "Invalid directory structure: "
             /\ Mentions(calls'[c].directoryResult.error,
                         "Directory keys array cannot be empty")
             /\ directoryCache' = directoryCache]_vars

\* A resolve got a directory with no key, failed, and the cache is empty.
C10_Witness ==
    \E c \in Slots :
        /\ Done(c)
        /\ calls[c].response # Undef
        /\ GotDocument(calls[c].response)
        /\ calls[c].response.json = Dir(Arr(<<>>), Str("rag"))
        /\ ~calls[c].directoryResult.success
        /\ DOMAIN directoryCache = {}

(***************************************************************************)
(* Vocabulary of the verifier's failure properties                         *)
(***************************************************************************)
\* The request carries both headers, non-empty.
IsSigned(request) ==
    /\ HasHeader(request, "signature")
    /\ HasHeader(request, "signature-input")
    /\ request.headers["signature"] # Str("")
    /\ request.headers["signature-input"] # Text(<<>>)

\* The resolver of the call of slot c returned a failure.
ResolveFailed(c) ==
    /\ calls[c].directoryResult.t = "object"
    /\ ~calls[c].directoryResult.success

IsSignatureInvalid(result) ==
    /\ ~result.isValid
    /\ result.error = <<"Signature verification failed">>

IsValidationError(result) ==
    /\ ~result.isValid
    /\ Head(result.error) = "Validation error: "

\* The value has the shape of a ValidationResult.
IsValidationResult(result) ==
    /\ {"isValid", "error", "details", "metadata"} \subseteq DOMAIN result
    /\ result.isValid \in BOOLEAN
    /\ DOMAIN result.details
         = {"signatureFound", "directoryFetched", "keyMatched",
            "signatureValid"}

(***************************************************************************)
(* C12.  When the resolve of a signed request's verification fails, the    *)
(* verification fails with the directory-unavailable error, its message is *)
(* the prefix followed by the resolver's message unchanged, and the        *)
(* milestones are signatureFound true and the other three false.           *)
(***************************************************************************)
C12_ResolverMessageKept ==
    \A c \in Slots :
        Validated(c) /\ IsSigned(calls[c].request) /\ ResolveFailed(c)
        => /\ IsDirectoryUnavailable(calls[c].result)
           /\ Tail(calls[c].result.error) = calls[c].directoryResult.error
           /\ calls[c].directoryResult.error # <<>>
           /\ calls[c].result.details = Details(TRUE, FALSE, FALSE, FALSE)

\* A verification failed on a 404 of the directory and its message carries
\* the resolver's, status included.
C12_Witness ==
    \E c \in Slots :
        /\ Validated(c)
        /\ ResolveFailed(c)
        /\ calls[c].response = Response(404, "Not Found", NotJson)
        /\ calls[c].result.error
             = <<"Failed to fetch signatures directory: ",
                 "Failed to fetch directory: ", "404", " ", "Not Found">>

(***************************************************************************)
(* C13.  When the key is matched and the cryptographic verification fails, *)
(* the verification fails with the signature-invalid error and the         *)
(* milestones signatureFound, directoryFetched and keyMatched true and     *)
(* signatureValid false, whether or not the purposes agree: the purpose is *)
(* not looked at.                                                          *)
(***************************************************************************)
C13_SignatureInvalid ==
    \A c \in Slots :
        /\ Validated(c)
        /\ Resolved(c)
        /\ KeysNamed(calls[c].directoryResult.directory,
                     KeyIdOf(calls[c].request)) # {}
        /\ ~SignatureVerifies(calls[c].request,
                              calls[c].directoryResult.directory)
        => /\ IsSignatureInvalid(calls[c].result)
           /\ calls[c].result.details = Details(TRUE, TRUE, TRUE, FALSE)
           /\ calls[c].result.metadata = Undef

\* A request with a signature no key verifies failed on the signature under
\* an expected purpose the directory does not declare.
C13_Witness ==
    \E c \in Slots :
        /\ Validated(c)
        /\ Resolved(c)
        /\ NODE_ENV = "production"
        /\ calls[c].request.headers["signature"] = Str("garbage")
        /\ IsSignatureInvalid(calls[c].result)
        /\ validationConfig.purpose = Str("rag")
        /\ calls[c].directoryResult.directory.purpose # Str("rag")

(***************************************************************************)
(* C17.  validateWebBotAuth returns a ValidationResult whatever the        *)
(* request, the configuration, the cache and the network are: an exception *)
(* raised inside it becomes a result with isValid false and a message, and *)
(* so does a directory address that is not a URL.                          *)
(***************************************************************************)
C17_AlwaysAResult ==
    \A c \in Slots :
        Validated(c)
        => /\ IsValidationResult(calls[c].result)
           /\ ~calls[c].result.isValid => calls[c].result.error # <<>>
           /\ IsSigned(calls[c].request) /\ Nullish(validationConfig)
              => IsValidationError(calls[c].result)
           /\ calls[c].url = NotAUrl
              => /\ ~calls[c].result.isValid
                 /\ calls[c].result.error # <<>>

\* A signed request was verified under a configuration that is null, and
\* the TypeError came back as a result.
C17_Witness ==
    \E c \in Slots :
        /\ Validated(c)
        /\ validationConfig = Null
        /\ IsValidationError(calls[c].result)
        /\ calls[c].result.details = Details(TRUE, FALSE, FALSE, FALSE)

(***************************************************************************)
(* The network may never answer: fetchSettles is the network's step and    *)
(* nothing forces it.  The clock is the only thing that always advances:   *)
(* fetchSignaturesDirectory passes fetch() no signal and sets no timer, so *)
(* no step of the program is enabled while a call waits.                   *)
(***************************************************************************)
FairSpec == Init /\ [][Next]_vars /\ WF_vars(Tick)

(***************************************************************************)
(* C16.  No operation blocks for ever: every resolve, and so every         *)
(* verification, that waits for fetch() eventually returns, also when the  *)
(* network never answers, as a timeout bounds the fetch.                   *)
(***************************************************************************)
C16_EveryResolveReturns ==
    \A c \in Slots : (calls[c].pc = "fetch") ~> (calls[c].pc = "done")

(***************************************************************************)
(* The resolver over an hour: the clock of Spec, which steps by half the   *)
(* test's window, and one long wait that ends TickMs short of the default  *)
(* window, so that an entry can be a little younger than an hour, exactly  *)
(* an hour old, and older.                                                 *)
(***************************************************************************)
HourPasses ==
    /\ now < DefaultCacheTimeout - TickMs
    /\ now' = now + DefaultCacheTimeout - TickMs
    /\ UNCHANGED <<NODE_ENV, validationConfig, directoryCache, fetchCount,
                   calls, batch, lookup, stats>>

\* What the directory address answers in this specification.
WindowResponses ==
    { Rejected("Network error"),
      Response(200, "OK", Dir(Arr(<<K1, K2>>), Str("rag"))),
      Response(200, "OK", Dir(Arr(<<K2>>), Undef)) }

WindowRequests == { Signed(Str("sig-by-x1"), InputK1) }

InitWindow ==
    /\ Loaded
    /\ NODE_ENV = "production"
    /\ validationConfig \in
         { Config(u, Undef, w) : u \in Urls, w \in CacheTimeouts }

NextWindow ==
    \/ \E c \in Sequential, url \in Urls, cacheTimeout \in CacheTimeouts :
         fetchSignaturesDirectory(c, url, cacheTimeout)
    \/ \E c \in Sequential, request \in WindowRequests :
         validateWebBotAuth(c, request)
    \/ \E c \in Sequential, response \in WindowResponses :
         fetchSettles(c, response)
    \/ Tick
    \/ HourPasses

SpecWindow == InitWindow /\ [][NextWindow]_vars

(***************************************************************************)
(* C20.  A freshness window of 0 disables the cache: every resolve that    *)
(* asks for it calls fetch(), whatever entry the cache holds for the URL.  *)
(* A resolve that supplies no window gets the default of one hour: it is   *)
(* served from the cache exactly when the entry is less than 3,600,000 ms  *)
(* old.                                                                    *)
(***************************************************************************)
C20_ZeroDisablesDefaultHour ==
    [][\A c \in Slots :
          Starts(c)
          => /\ calls'[c].cacheTimeout = Num(0)
                => /\ calls'[c].pc = "fetch"
                   /\ fetchCount' = fetchCount + 1
             /\ calls'[c].cacheTimeout = Undef
                => (calls'[c].pc = "done"
                      <=> /\ calls'[c].url \in DOMAIN directoryCache
                          /\ now - directoryCache[calls'[c].url].timestamp
                               < 3600000)]_vars

\* A resolve with a window of 0 waits for fetch() at the very instant the
\* entry of its URL was stored.
C20_Witness ==
    \E c \in Slots :
        /\ calls[c].pc = "fetch"
        /\ calls[c].cacheTimeout = Num(0)
        /\ calls[c].url \in DOMAIN directoryCache
        /\ directoryCache[calls[c].url].timestamp = calls[c].timestamp

(***************************************************************************)
(* Directories key by key: the directory address serves one document, any  *)
(* sequence of at most MaxKeys keys, valid or not, and a caller resolves   *)
(* it and looks an identifier up in it.                                    *)
(***************************************************************************)
\* The longest keys array.
MaxKeys == 3

\* k1 once more, with other key material.
K1Again == Jwk(OKP, Ed25519, Str("x2"), Str("k1"), Undef, Undef)

KeyShapes == { K1, K2, K1Again, KRsa, KCurve, KNoX }

KeyDocuments ==
    { Dir(Arr(items), Str("rag")) :
        items \in UNION { [1..n -> KeyShapes] : n \in 0..MaxKeys } }

\* The longest keys array of the documents whose keys lack a member or
\* have one of the wrong type.
MaxFieldKeys == 2

KNoKid == Jwk(OKP, Ed25519, Str("x1"), Undef, Undef, Undef)

KEmptyX == Jwk(OKP, Ed25519, Str(""), Str("k1"), Undef, Undef)

KEmptyKid == Jwk(OKP, Ed25519, Str("x1"), Str(""), Undef, Undef)

\* "nbf": "2026-01-01"
KNbfString == Jwk(OKP, Ed25519, Str("x1"), Str("k1"), Str("2026-01-01"), Undef)

\* "exp": null
KExpNull == Jwk(OKP, Ed25519, Str("x1"), Str("k1"), Num(0), Null)

FieldShapes ==
    KeyShapes \cup { KNoKid, KEmptyX, KEmptyKid, KNbfString, KExpNull }

FieldDocuments ==
    { Dir(Arr(items), Str("rag")) :
        items \in UNION { [1..n -> FieldShapes] : n \in 0..MaxFieldKeys } }

Kids == { Str("k1"), Str("k2"), Str("k9") }

\* A caller looks the identifier up in the document.
findKeyByIdCall ==
    /\ lookup.pc = "input"
    /\ lookup' = [lookup EXCEPT
                    !.pc = "done",
                    !.key = findKeyById(lookup.directory, lookup.kid)]
    /\ UNCHANGED <<now, NODE_ENV, validationConfig, directoryCache,
                   fetchCount, calls, batch, stats>>

InitKeys ==
    /\ now = 0
    /\ directoryCache = << >>
    /\ fetchCount = 0
    /\ calls = [c \in Slots |-> Idle]
    /\ batch = NoBatch
    /\ NODE_ENV = "production"
    /\ validationConfig \in { Config(u, Undef, Undef) : u \in Urls }
    /\ \E document \in KeyDocuments \cup FieldDocuments, kid \in Kids :
         lookup = [pc |-> "input", directory |-> document, kid |-> kid,
                   key |-> Undef]
    /\ stats = NoStats

\* A request signed with the first key material that names the identifier.
Naming(kid) ==
    Signed(Str("sig-by-x1"), Text(<<Token("", "keyid", TRUE, kid.s)>>))

NextKeys ==
    \/ findKeyByIdCall
    \/ \E c \in Sequential, url \in Urls :
         fetchSignaturesDirectory(c, url, Undef)
    \/ \E c \in Sequential : validateWebBotAuth(c, Naming(lookup.kid))
    \/ \E c \in Sequential :
         fetchSettles(c, Response(200, "OK", lookup.directory))
    \/ clearDirectoryCache

SpecKeys == InitKeys /\ [][NextKeys]_vars

\* The key is of another type or on another curve than the data model has.
WrongTypeOrCurve(key) == key.kty # Str("OKP") \/ key.crv # Str("Ed25519")

\* The message names what is wrong with the key.
NamesTypeOrCurve(error, key) ==
    IF key.kty # Str("OKP")
      THEN Mentions(error, "Key type must be \"OKP\" for Ed25519")
      ELSE Mentions(error, "Curve must be \"Ed25519\"")

\* The first key of the array that is not well formed.
FirstInvalid(items) ==
    CHOOSE i \in 1..Len(items) :
        /\ ~WellFormedKey(items[i])
        /\ \A j \in 1..(i - 1) : WellFormedKey(items[j])

\* The call of slot c has fetched a document that holds a key of the wrong
\* type or curve.
FetchedWrongTypeOrCurve(c) ==
    /\ Done(c)
    /\ calls[c].response # Undef
    /\ GotDocument(calls[c].response)
    /\ \E i \in 1..Len(calls[c].response.json.keys.items) :
          WrongTypeOrCurve(calls[c].response.json.keys.items[i])

(***************************************************************************)
(* C11.  A fetched directory that holds a key whose kty is not "OKP" or    *)
(* whose crv is not "Ed25519" makes the resolve fail, however many of the  *)
(* other keys are valid.  As claimed, the error always names the key type  *)
(* or the curve of such a key ...                                          *)
(***************************************************************************)
C11_TypeOrCurveAlwaysNamed ==
    \A c \in Slots :
        FetchedWrongTypeOrCurve(c)
        => /\ ResolverFailure(calls[c].directoryResult)
           /\ \E i \in 1..Len(calls[c].response.json.keys.items) :
                 /\ WrongTypeOrCurve(calls[c].response.json.keys.items[i])
                 /\ NamesTypeOrCurve(calls[c].directoryResult.error,
                                     calls[c].response.json.keys.items[i])

\* ... and as the code has it, the error names the first invalid key of the
\* array, by its index, and what is wrong with that key: its type or curve
\* when that is what is wrong with it.
C11_FirstInvalidKeyNamed ==
    \A c \in Slots :
        FetchedWrongTypeOrCurve(c)
        => LET items == calls[c].response.json.keys.items
               error == calls[c].directoryResult.error
               i == FirstInvalid(items)
           IN  /\ ResolverFailure(calls[c].directoryResult)
               /\ Head(error) = "Invalid directory structure: "
               /\ SubSeq(error, 2, 4)
                    = <<"Invalid key at index ", ToString(i - 1), ": ">>
               /\ WrongTypeOrCurve(items[i])
                  => NamesTypeOrCurve(error, items[i])
               /\ calls[c].url \notin DOMAIN directoryCache

\* A resolve failed on the RSA key that follows two valid keys.
C11_Witness ==
    \E c \in Slots :
        /\ Done(c)
        /\ calls[c].response
             = Response(200, "OK", Dir(Arr(<<K1, K2, KRsa>>), Str("rag")))
        /\ calls[c].directoryResult.error
             = <<"Invalid directory structure: ", "Invalid key at index ",
                 "2", ": ", "Key type must be \"OKP\" for Ed25519">>

(***************************************************************************)
(* C19.  findKeyById is a pure lookup: it returns the first key, in the    *)
(* order of the array, whose kid is the identifier asked for (the earlier  *)
(* one when two keys declare it), returns undefined when no key declares   *)
(* it (so for a directory without keys), and changes neither the directory *)
(* nor the cache.                                                          *)
(***************************************************************************)
C19_FirstMatchPure ==
    [][lookup.pc = "input" /\ lookup'.pc = "done"
       => LET items == lookup.directory.keys.items
              key == lookup'.key
          IN  /\ key # Undef
                 => \E i \in 1..Len(items) :
                       /\ key = items[i]
                       /\ items[i].kid = lookup.kid
                       /\ \A j \in 1..(i - 1) : items[j].kid # lookup.kid
              /\ key = Undef
                 => \A i \in 1..Len(items) : items[i].kid # lookup.kid
              /\ lookup'.directory = lookup.directory
              /\ directoryCache' = directoryCache]_vars

\* The identifier k1 was looked up in a directory whose first and second
\* key both declare it, while the cache holds a directory: the first key
\* came back.
C19_Witness ==
    /\ lookup.pc = "done"
    /\ lookup.kid = Str("k1")
    /\ Len(lookup.directory.keys.items) >= 2
    /\ lookup.directory.keys.items[1] = K1
    /\ lookup.directory.keys.items[2] = K1Again
    /\ lookup.key = K1
    /\ DOMAIN directoryCache # {}

(***************************************************************************)
(* Callers in parallel: every slot can hold a call, so that resolves and   *)
(* verifications overlap and their calls of fetch() settle in any order.   *)
(***************************************************************************)
\* A caller verifies a request with the debug variant.
validateWithDebug(c, request) ==
    /\ calls[c].pc # "fetch"
    /\ resolveStart(c, verificationStarted("validateWithDebug", request))
    /\ UNCHANGED <<now, NODE_ENV, validationConfig, directoryCache, batch,
                   lookup, stats>>

\* A caller verifies a batch: requests.map(...) enters validateWebBotAuth
\* for each request in turn, each up to its call of fetch(), before any
\* fetch() settles; the verification of requests[i] takes slot i.
validateBatch(requests) ==
    /\ batch.pc # "pending"
    /\ \A i \in 1..Len(requests) : calls[i].pc # "fetch"
    /\ LET started ==
               [i \in 1..Len(requests) |->
                   verificationStarted("validateWebBotAuth", requests[i])]
           callsAfter ==
               [c \in Slots |->
                   IF c <= Len(requests) THEN started[c] ELSE calls[c]]
           fetches ==
               Cardinality({i \in 1..Len(requests) : started[i].fetches = 1})
           completedAfter ==
               SelectSeq([i \in 1..Len(requests) |-> i],
                         LAMBDA i : started[i].pc = "done")
       IN  /\ fetchCount + fetches <= MaxFetches
           /\ fetchCount' = fetchCount + fetches
           /\ calls' = callsAfter
           /\ batch' = batchAfter([pc |-> "pending", requests |-> requests,
                                   completed |-> <<>>, results |-> <<>>],
                                  callsAfter, completedAfter)
    /\ UNCHANGED <<now, NODE_ENV, validationConfig, directoryCache, lookup,
                   stats>>

\* What the directory address answers to callers in parallel: two
\* directories that differ, and a failure.
ConcurrentResponses ==
    { Rejected("Network error"),
      Response(200, "OK", Dir(Arr(<<K1, K2>>), Str("rag"))),
      Response(200, "OK", Dir(Arr(<<K2>>), Undef)) }

InitConcurrent ==
    /\ Loaded
    /\ NODE_ENV = "production"
    /\ validationConfig \in { Config(u, Undef, Undef) : u \in Urls }

\* Resolves of one URL from every slot.
NextConcurrent ==
    \/ \E c \in Slots, url \in Urls, cacheTimeout \in {Undef, Num(0)} :
         fetchSignaturesDirectory(c, url, cacheTimeout)
    \/ \E c \in Slots, response \in ConcurrentResponses :
         fetchSettles(c, response)
    \/ Tick

SpecConcurrent == InitConcurrent /\ [][NextConcurrent]_vars

\* An unsigned request, one that names k1 and one that names k9.
BatchRequests ==
    { Req(ContentType), Signed(Str("sig-by-x1"), InputK1),
      Signed(Str("sig-by-x1"), InputK9) }

\* The batches: at most as many requests as there are slots.
Batches == UNION { [1..n -> BatchRequests] : n \in 0..MaxCalls }

BatchResponses ==
    { Rejected("Network error"),
      Response(200, "OK", Dir(Arr(<<K1, K2>>), Str("rag"))) }

\* Batches, one after the other.
NextBatch ==
    \/ \E requests \in Batches : validateBatch(requests)
    \/ \E c \in Slots, response \in BatchResponses :
         fetchSettles(c, response)
    \/ clearDirectoryCache

SpecBatch == InitConcurrent /\ [][NextBatch]_vars

\* One caller who verifies with validateWebBotAuth and with the debug
\* variant: the plain verification in the first slot, the debug variant in
\* the last.
DebugSlot == { CHOOSE c \in Slots : \A d \in Slots : c >= d }

DebugRequests ==
    { Req(ContentType), Signed(Str("sig-by-x1"), InputK1),
      Signed(Str("garbage"), InputK1), Signed(Str("sig-by-x1"), InputK9) }

InitDebug ==
    /\ Loaded
    /\ NODE_ENV = "production"
    /\ validationConfig \in
         { Config(u, purpose, Undef) :
             u \in Urls, purpose \in {Undef, Str("test")} }
         \cup MalformedConfigs

NextDebug ==
    \/ \E c \in Sequential, request \in DebugRequests :
         validateWebBotAuth(c, request)
    \/ \E c \in DebugSlot, request \in DebugRequests :
         validateWithDebug(c, request)
    \/ \E c \in Slots, response \in ConcurrentResponses :
         fetchSettles(c, response)
    \/ clearDirectoryCache

SpecDebug == InitDebug /\ [][NextDebug]_vars

(***************************************************************************)
(* C14.  validateBatch of N requests returns N results, and result i is    *)
(* the result of the verification of request i, in whatever order the      *)
(* verifications, and the calls of fetch() they wait for, complete.        *)
(***************************************************************************)
\* The result is one that the verification of this request can give: it
\* tells a signed request from an unsigned one, and names the request's
\* keyid when it accepts the key or does not find it.
Answers(result, request) ==
    /\ IsMissingSignature(result) <=> ~IsSigned(request)
    /\ IsUnknownKey(result)
       => result.error[2] = Template(KeyIdOf(request))
    /\ result.isValid => result.metadata.kid = KeyIdOf(request)

C14_ResultsInInputOrder ==
    [][batch'.pc = "done" /\ batch' # batch
       => /\ Len(batch'.results) = Len(batch'.requests)
          /\ \A i \in 1..Len(batch'.requests) :
                /\ calls'[i].request = batch'.requests[i]
                /\ batch'.results[i] = calls'[i].result
                /\ Answers(batch'.results[i], batch'.requests[i])]_vars

\* A batch of a request naming k1 and one naming k9 has returned, the
\* second verification having completed first: the first result accepts
\* k1 and the second does not find k9.
C14_Witness ==
    /\ batch.pc = "done"
    /\ Len(batch.requests) = 2
    /\ batch.completed = <<2, 1>>
    /\ IsSigned(batch.requests[1]) /\ IsSigned(batch.requests[2])
    /\ KeyIdOf(batch.requests[1]) = Str("k1")
    /\ KeyIdOf(batch.requests[2]) = Str("k9")
    /\ batch.results[1].isValid
    /\ IsUnknownKey(batch.results[2])

(***************************************************************************)
(* C15.  Resolves of one URL that start during a cache miss each call      *)
(* fetch(), also while another resolve of the URL waits for its own; each  *)
(* completes with what its own fetch() brought; and each that succeeds     *)
(* writes its entry over the one in the cache, so that once all have       *)
(* completed the entry is that of the resolve that stored last.            *)
(***************************************************************************)
C15_DuplicateFetchesLastWriterWins ==
    [][\A c \in Slots :
          /\ Starts(c) /\ ~Fresh(calls'[c].url, calls'[c].cacheTimeout)
             => /\ calls'[c].pc = "fetch"
                /\ fetchCount' = fetchCount + 1
          /\ Settles(c)
             => IF /\ GotDocument(calls'[c].response)
                   /\ WellFormedDirectory(calls'[c].response.json)
                  THEN /\ calls'[c].directoryResult.success
                       /\ calls'[c].directoryResult.directory
                            = calls'[c].response.json
                       /\ calls'[c].directoryResult.timestamp
                            = calls[c].timestamp
                       /\ directoryCache'[calls[c].url]
                            = [data |-> calls'[c].response.json,
                               timestamp |-> calls[c].timestamp]
                  ELSE /\ ResolverFailure(calls'[c].directoryResult)
                       /\ directoryCache' = directoryCache]_vars

\* Two resolves with the default window have both fetched, each got its
\* own directory, and the cache holds the entry of the one that started
\* first: it stored last.
C15_Witness ==
    \E c, d \in Slots :
        /\ Done(c) /\ Done(d)
        /\ calls[c].fetches = 1 /\ calls[d].fetches = 1
        /\ calls[c].cacheTimeout = Undef /\ calls[d].cacheTimeout = Undef
        /\ calls[c].url = calls[d].url
        /\ calls[c].directoryResult.success
        /\ calls[d].directoryResult.success
        /\ calls[c].directoryResult.directory
             # calls[d].directoryResult.directory
        /\ calls[c].directoryResult.timestamp
             < calls[d].directoryResult.timestamp
        /\ directoryCache[calls[c].url]
             = [data |-> calls[c].directoryResult.directory,
                timestamp |-> calls[c].directoryResult.timestamp]

(***************************************************************************)
(* C18.  validateWithDebug is strictly additive: for the same request,     *)
(* configuration and outcome of the resolve, its isValid, error, details   *)
(* and metadata (key id and purpose; the timestamp is the instant of each  *)
(* run) are those of validateWebBotAuth, and the one member it adds is the *)
(* debug record, which holds the request's headers, URL and method and the *)
(* configuration.                                                          *)
(***************************************************************************)
SameMetadata(debugged, plain) ==
    IF plain.metadata = Undef THEN debugged.metadata = Undef
    ELSE /\ debugged.metadata # Undef
         /\ debugged.metadata.kid = plain.metadata.kid
         /\ debugged.metadata.purpose = plain.metadata.purpose

C18_DebugIsAdditive ==
    \A c, d \in Slots :
        /\ Done(c) /\ calls[c].op = "validateWithDebug"
        /\ Done(d) /\ calls[d].op = "validateWebBotAuth"
        /\ calls[c].request = calls[d].request
        /\ calls[c].directoryResult = calls[d].directoryResult
        => /\ calls[c].result.isValid = calls[d].result.isValid
           /\ calls[c].result.error = calls[d].result.error
           /\ calls[c].result.details = calls[d].result.details
           /\ SameMetadata(calls[c].result, calls[d].result)
           /\ DOMAIN calls[c].result = DOMAIN calls[d].result \cup {"debug"}
           /\ calls[c].result.debug.headers = calls[c].request.headers
           /\ calls[c].result.debug.url = calls[c].request.url
           /\ calls[c].result.debug.method = calls[c].request.method
           /\ calls[c].result.debug.config = validationConfig

\* The same validly signed request was verified with and without debug
\* against the same directory, and accepted both times.
C18_Witness ==
    \E c, d \in Slots :
        /\ Done(c) /\ calls[c].op = "validateWithDebug"
        /\ Done(d) /\ calls[d].op = "validateWebBotAuth"
        /\ calls[c].request = calls[d].request
        /\ calls[c].directoryResult = calls[d].directoryResult
        /\ calls[c].result.isValid
        /\ calls[d].result.isValid
        /\ calls[c].result.debug.method = "GET"

(***************************************************************************)
(* One caller who probes an endpoint: the same request verified twice, in  *)
(* the first slot and in the last, with the debug variant, whose result    *)
(* holds the configuration of the call.  Between two calls the caller may  *)
(* pass another expected purpose, and the directory address may serve the  *)
(* same keys under another declared purpose; the window of 0 makes every   *)
(* verification fetch.                                                     *)
(***************************************************************************)
ProbeSlots == Sequential \cup DebugSlot

\* A valid signature by k1, a forged one, one by another key than the one
\* it names, and one that names a key no directory has.
ProbeRequests ==
    { Signed(Str("sig-by-x1"), InputK1), Signed(Str("garbage"), InputK1),
      Signed(Str("sig-by-x2"), InputK1), Signed(Str("sig-by-x1"), InputK9) }

ProbePurposes == { Undef, Str("rag"), Str("test") }

\* The same keys under every declared purpose.
ProbeResponses ==
    { Response(200, "OK", Dir(Arr(<<K1, K2>>), p)) : p \in ProbePurposes }

\* The next call is made with another expected purpose: config.purpose is
\* an argument of each call.
configure(purpose) ==
    /\ \A c \in Slots : calls[c].pc # "fetch"
    /\ validationConfig.purpose # purpose
    /\ validationConfig' = [validationConfig EXCEPT !.purpose = purpose]
    /\ UNCHANGED <<now, NODE_ENV, directoryCache, fetchCount, calls, batch,
                   lookup, stats>>

InitPurpose ==
    /\ Loaded
    /\ NODE_ENV = "production"
    /\ validationConfig \in
         { Config(u, p, Num(0)) : u \in Urls, p \in ProbePurposes }

NextPurpose ==
    \/ \E c \in ProbeSlots, request \in ProbeRequests :
         validateWithDebug(c, request)
    \/ \E c \in ProbeSlots, response \in ProbeResponses :
         fetchSettles(c, response)
    \/ \E purpose \in ProbePurposes : configure(purpose)

SpecPurpose == InitPurpose /\ [][NextPurpose]_vars

\* Two verifications that have returned differ in nothing but the expected
\* purpose and the purpose the directory declares.
DifferInPurposeOnly(c, d) ==
    /\ Done(c) /\ Done(d)
    /\ calls[c].op = calls[d].op
    /\ calls[c].request = calls[d].request
    /\ Resolved(c) /\ Resolved(d)
    /\ calls[c].directoryResult.directory.keys
         = calls[d].directoryResult.directory.keys
    /\ [calls[c].result.debug.config EXCEPT !.purpose = Undef]
         = [calls[d].result.debug.config EXCEPT !.purpose = Undef]

\* The directory's purpose is the expected one, as step 5 compares them.
PurposeAgrees(c) ==
    calls[c].directoryResult.directory.purpose
      = calls[c].result.debug.config.purpose

(***************************************************************************)
(* C21.  For a request whose signature does not verify under the key it    *)
(* names, two verifications that differ only in the directory's purpose or *)
(* the expected purpose return the same isValid, error and details: the    *)
(* result does not tell whether the two purposes agree.                    *)
(***************************************************************************)
C21_PurposeHiddenWithoutSignature ==
    \A c, d \in Slots :
        /\ DifferInPurposeOnly(c, d)
        /\ ~SignatureVerifies(calls[c].request,
                              calls[c].directoryResult.directory)
        => /\ calls[c].result.isValid = calls[d].result.isValid
           /\ calls[c].result.error = calls[d].result.error
           /\ calls[c].result.details = calls[d].result.details

\* The same forged request was verified with the expected purpose the
\* directory declares and with another one: signature invalid both times.
C21_Witness ==
    \E c, d \in Slots :
        /\ DifferInPurposeOnly(c, d)
        /\ calls[c].request = Signed(Str("garbage"), InputK1)
        /\ PurposeAgrees(c)
        /\ ~PurposeAgrees(d)
        /\ calls[d].result.debug.config.purpose # Undef
        /\ IsSignatureInvalid(calls[c].result)
        /\ IsSignatureInvalid(calls[d].result)

\* The call of slot c has fetched a document with keys.
FetchedKeys(c) ==
    /\ Done(c)
    /\ calls[c].response # Undef
    /\ GotDocument(calls[c].response)
    /\ calls[c].response.json.keys.t = "array"

(***************************************************************************)
(* C22.  After any sequence of resolves, verifications and cache clears,   *)
(* every directory in the cache has a non-empty keys array in which every  *)
(* key has kty "OKP", crv "Ed25519", a non-empty string x, a non-empty     *)
(* string kid and, when present, numeric nbf and exp; so has every         *)
(* directory a resolve returns as a success; and a document that is not    *)
(* such a directory makes the resolve fail and is not in the cache.        *)
(***************************************************************************)
C22_CacheHoldsValidDirectories ==
    /\ \A url \in DOMAIN directoryCache :
          WellFormedDirectory(directoryCache[url].data)
    /\ \A c \in Slots :
          /\ Done(c) /\ Resolved(c)
             => WellFormedDirectory(calls[c].directoryResult.directory)
          /\ FetchedKeys(c) /\ ~WellFormedDirectory(calls[c].response.json)
             => /\ ResolverFailure(calls[c].directoryResult)
                /\ \A url \in DOMAIN directoryCache :
                      directoryCache[url].data # calls[c].response.json

\* A verification was served from the cache, which holds a directory of
\* three keys fetched after a clear.
C22_Witness ==
    \E c \in Slots :
        /\ Validated(c)
        /\ Resolved(c)
        /\ calls[c].fetches = 0
        /\ fetchCount = 2
        /\ calls[c].url \in DOMAIN directoryCache
        /\ Len(directoryCache[calls[c].url].data.keys.items) = 3

\* The key lacks x or kid, or has an empty one, or has an nbf or exp that is
\* not a number.
MissingOrWrongMember(key) ==
    \/ key.x = Undef \/ key.x = Str("")
    \/ key.kid = Undef \/ key.kid = Str("")
    \/ key.nbf.t \notin {"undefined", "number"}
    \/ key.exp.t \notin {"undefined", "number"}

(***************************************************************************)
(* C29.  A directory in which some key is invalid is rejected with an      *)
(* error that names the index of the first invalid key of the array.  Keys *)
(* without x or kid, with an empty x or kid, or with an nbf or exp that is *)
(* not a number are invalid: the resolve fails, and a verification fails   *)
(* in step 2, before the key lookup of step 3 and the cryptographic        *)
(* verification of step 4.                                                 *)
(***************************************************************************)
C29_SmallestInvalidIndexAtResolve ==
    \A c \in Slots :
        FetchedKeys(c)
        => LET items == calls[c].response.json.keys.items
               error == calls[c].directoryResult.error
           IN  /\ (\E i \in 1..Len(items) : MissingOrWrongMember(items[i]))
                  => \E i \in 1..Len(items) : ~WellFormedKey(items[i])
               /\ (\E i \in 1..Len(items) : ~WellFormedKey(items[i]))
                  => /\ ResolverFailure(calls[c].directoryResult)
                     /\ SubSeq(error, 1, 4)
                          = <<"Invalid directory structure: ",
                              "Invalid key at index ",
                              ToString(FirstInvalid(items) - 1), ": ">>
                     /\ Len(error) = 5
                     /\ calls[c].op = "validateWebBotAuth"
                        => /\ IsDirectoryUnavailable(calls[c].result)
                           /\ ~calls[c].result.details.keyMatched
                           /\ calls[c].verifications = 0

\* A verification failed in step 2 on a directory whose first key has an
\* empty x and whose second has no kid: the error names index 0.
C29_Witness ==
    \E c \in Slots :
        /\ Validated(c)
        /\ FetchedKeys(c)
        /\ calls[c].response.json.keys.items = <<KEmptyX, KNoKid>>
        /\ calls[c].directoryResult.error
             = <<"Invalid directory structure: ", "Invalid key at index ",
                 "0", ": ", "Missing or invalid \"x\" coordinate">>
        /\ IsDirectoryUnavailable(calls[c].result)

(***************************************************************************)
(* C23.  No retries: a resolve calls fetch() at most once, and when that   *)
(* call has settled, with whatever outcome, the resolve returns without    *)
(* another one.  So does a verification, which calls fetch() not at all    *)
(* when a signature header is missing or empty, or when the entry of the   *)
(* configured URL is fresh.                                                *)
(***************************************************************************)
C23_NoRetries ==
    [][\A c \in Slots :
          /\ calls[c].pc # "fetch" /\ calls'[c] # calls[c]
             => /\ calls'[c].fetches \in {0, 1}
                /\ fetchCount' = fetchCount + calls'[c].fetches
                /\ calls'[c].fetches = 1 <=> calls'[c].pc = "fetch"
                /\ calls'[c].op = "validateWebBotAuth"
                      /\ ~IsSigned(calls'[c].request)
                   => calls'[c].fetches = 0
                /\ calls'[c].url # ""
                      /\ Fresh(calls'[c].url, calls'[c].cacheTimeout)
                   => calls'[c].fetches = 0
          /\ calls[c].pc = "fetch" /\ calls'[c] # calls[c]
             => /\ calls'[c].pc = "done"
                /\ calls'[c].fetches = 1
                /\ fetchCount' = fetchCount]_vars

\* A verification has returned a failure after its one call of fetch(),
\* the second call of the behaviour.
C23_Witness ==
    \E c \in Slots :
        /\ Validated(c)
        /\ ResolveFailed(c)
        /\ FetchFailed(calls[c].response)
        /\ calls[c].fetches = 1
        /\ fetchCount = 2

(***************************************************************************)
(* The cache over several addresses: a caller resolves, in the first slot  *)
(* and in the last, three URL strings that differ from one another by a    *)
(* trailing slash or by the case of a letter, and clears the cache.        *)
(***************************************************************************)
CacheUrls ==
    { "https://a.example/directory", "https://a.example/directory/",
      "https://A.example/directory" }

CacheResponses ==
    { Rejected("Network error"),
      Response(200, "OK", Dir(Arr(<<K1, K2>>), Str("rag"))),
      Response(200, "OK", Dir(Arr(<<K2>>), Undef)) }

NextCache ==
    \/ \E c \in ProbeSlots, url \in CacheUrls :
         fetchSignaturesDirectory(c, url, Undef)
    \/ \E c \in ProbeSlots, response \in CacheResponses :
         fetchSettles(c, response)
    \/ clearDirectoryCache
    \/ Tick

SpecCache == InitConcurrent /\ [][NextCache]_vars

\* This step is a call of clearDirectoryCache: it is neither a step of a
\* call in a slot nor one of the clock, and no call of getCacheStats.
Clears == calls' = calls /\ now' = now /\ stats' = stats

(***************************************************************************)
(* C24.  After clearDirectoryCache the cache is empty: getCacheStats       *)
(* reports size 0 and no entries.  The next resolve of any URL calls       *)
(* fetch(), also when the URL had a fresh entry before the clear.          *)
(***************************************************************************)
C24_ClearEmptiesTheCache ==
    [][/\ Clears
          => /\ getCacheStats(directoryCache').size = 0
             /\ getCacheStats(directoryCache').entries = {}
             /\ \A url \in CacheUrls : url \notin DOMAIN directoryCache'
       /\ \A c \in Slots :
             Starts(c) /\ getCacheStats(directoryCache).size = 0
             => /\ calls'[c].pc = "fetch"
                /\ fetchCount' = fetchCount + 1]_vars

\* A resolve with the default window waits for fetch() and the cache is
\* empty, at an instant at which the entry another resolve of the same URL
\* got would be fresh.
C24_Witness ==
    \E c, d \in Slots :
        /\ Done(d) /\ Resolved(d)
        /\ calls[c].pc = "fetch"
        /\ calls[c].url = calls[d].url
        /\ calls[c].cacheTimeout = Undef
        /\ calls[c].timestamp - calls[d].directoryResult.timestamp < 3600000
        /\ calls[c].timestamp >= calls[d].directoryResult.timestamp
        /\ getCacheStats(directoryCache) = [size |-> 0, entries |-> {}]

\* The documents the addresses serve.
Served ==
    { response.json :
        response \in CacheResponses \ {Rejected("Network error")} }

(***************************************************************************)
(* C27.  A fetch that succeeds stores the entry (directory, timestamp) of  *)
(* the URL resolved, in place of the entry the URL had, and leaves the     *)
(* entries of all other URLs as they are.  An entry is a document as it    *)
(* was served, never keys of two documents, and a fresh lookup returns the *)
(* directory of the entry.                                                 *)
(***************************************************************************)
C27_EntryReplacedWholesale ==
    [][\A c \in Slots :
          /\ Settles(c) /\ calls'[c].directoryResult.success
             => /\ DOMAIN directoryCache'
                     = DOMAIN directoryCache \cup {calls[c].url}
                /\ directoryCache'[calls[c].url]
                     = [data |-> calls'[c].response.json,
                        timestamp |-> calls[c].timestamp]
                /\ \A url \in DOMAIN directoryCache \ {calls[c].url} :
                      directoryCache'[url] = directoryCache[url]
                /\ \A url \in DOMAIN directoryCache' :
                      directoryCache'[url].data \in Served
          /\ Starts(c) /\ Fresh(calls'[c].url, calls'[c].cacheTimeout)
             => calls'[c].directoryResult.directory
                  = directoryCache[calls'[c].url].data]_vars

\* Two resolves of one URL have fetched documents that differ, and the
\* entry of the URL is the document and the timestamp of the one that
\* started later.
C27_Witness ==
    \E c, d \in Slots :
        /\ Done(c) /\ Done(d)
        /\ Resolved(c) /\ Resolved(d)
        /\ calls[c].fetches = 1 /\ calls[d].fetches = 1
        /\ calls[c].url = calls[d].url
        /\ calls[c].response.json = Dir(Arr(<<K2>>), Undef)
        /\ calls[d].response.json = Dir(Arr(<<K1, K2>>), Str("rag"))
        /\ calls[c].directoryResult.timestamp
             > calls[d].directoryResult.timestamp
        /\ directoryCache
             = (calls[c].url :>
                  [data |-> Dir(Arr(<<K2>>), Undef),
                   timestamp |-> calls[c].directoryResult.timestamp])

(***************************************************************************)
(* C28.  The key of an entry is the URL string as it was passed: a resolve *)
(* is served from the cache exactly when the cache has a fresh entry under *)
(* the very string it resolves, and a fetch stores under that string and   *)
(* no other.  URLs that differ by a trailing slash or by the case of a     *)
(* letter have entries of their own.                                       *)
(***************************************************************************)
C28_ExactUrlIsTheKey ==
    [][\A c \in Slots :
          /\ Starts(c)
             => /\ calls'[c].pc = "done"
                   <=> Fresh(calls'[c].url, calls'[c].cacheTimeout)
                /\ calls'[c].pc = "done"
                   => /\ calls'[c].directoryResult.url = calls'[c].url
                      /\ calls'[c].directoryResult.directory
                           = directoryCache[calls'[c].url].data
          /\ Settles(c)
             => /\ DOMAIN directoryCache'
                     \subseteq DOMAIN directoryCache \cup {calls[c].url}
                /\ calls'[c].directoryResult.url = calls[c].url]_vars

\* The cache has a fresh entry for the URL without a trailing slash, none
\* for the URL with one, and a resolve of the latter waits for fetch().
C28_Witness ==
    \E c, d \in Slots :
        /\ Done(d) /\ Resolved(d)
        /\ calls[d].url = "https://a.example/directory"
        /\ DOMAIN directoryCache = {"https://a.example/directory"}
        /\ Fresh("https://a.example/directory", Undef)
        /\ calls[c].pc = "fetch"
        /\ calls[c].url = "https://a.example/directory/"
        /\ calls[c].cacheTimeout = Undef
        /\ calls[c].timestamp
             > directoryCache["https://a.example/directory"].timestamp

\* The milestones of a failure in each step.
FailedInStep ==
    [step \in 1..5 |->
        Details(step > 1, step > 2, step > 3, step > 4)]

C26_ShortCircuit ==
    [][\A c \in Slots :
          Returns(c)
          => LET call == calls'[c]
                 result == calls'[c].result
             IN  /\ ~IsSigned(call.request) => IsMissingSignature(result)
                 /\ IsMissingSignature(result)
                    => /\ call.fetches = 0
                       /\ fetchCount' = fetchCount
                       /\ directoryCache' = directoryCache
                       /\ call.directoryResult = Undef
                       /\ call.verifications = 0
                 /\ IsDirectoryUnavailable(result) \/ IsValidationError(result)
                    => /\ call.verifications = 0
                       /\ directoryCache' = directoryCache
                 /\ /\ IsSigned(call.request)
                    /\ call.directoryResult # Undef
                    /\ call.directoryResult.success
                    /\ KeysNamed(call.directoryResult.directory,
                                 KeyIdOf(call.request)) = {}
                    => /\ IsUnknownKey(result)
                       /\ call.verifications = 0
                 /\ IsUnknownKey(result) => call.verifications = 0
                 /\ \/ result.isValid
                    \/ IsSignatureInvalid(result)
                    \/ IsPurposeMismatch(result)
                    => call.verifications = 1]_vars

\* A verification has fetched the directory and not found the key: it made
\* no cryptographic verification.
C26_Witness ==
    \E c \in Slots :
        /\ Validated(c)
        /\ IsUnknownKey(calls[c].result)
        /\ calls[c].fetches = 1
        /\ calls[c].verifications = 0
        /\ calls[c].url \in DOMAIN directoryCache

(***************************************************************************)
(* Header parsing field by field: a caller verifies requests whose         *)
(* signature-input holds any of the six fields and lacks the others, down  *)
(* to a signature-input that holds none, or nothing at all.                *)
(***************************************************************************)
\* keyid="k1",alg="ed25519",created=1234567890,expires=1234567899,
\* nonce="n1",tag="web-bot-auth"
AllFields ==
    <<KeyIdK1, Token("", "alg", TRUE, "ed25519"),
      Token("", "created", FALSE, "1234567890"),
      Token("", "expires", FALSE, "1234567899"),
      Token("", "nonce", TRUE, "n1"),
      Token("", "tag", TRUE, "web-bot-auth")>>

FieldNames == { AllFields[i].name : i \in 1..Len(AllFields) }

\* The member of SignatureComponents each field is parsed into.
MemberOf ==
    [name \in FieldNames |->
        CASE name = "keyid" -> "keyId"
          [] name = "alg" -> "algorithm"
          [] OTHER -> name]

\* The signature-input with the fields of the set, in the order above.
InputWith(names) ==
    Text(SelectSeq(AllFields, LAMBDA token : token.name \in names))

\* sig1=("@authority"): a signature-input that holds none of the fields.
InputNoField == Text(<<Token("", "sig1", FALSE, "(\"@authority\")")>>)

HeaderRequests ==
    { Signed(Str("sig-by-x1"), InputWith(names)) :
        names \in SUBSET FieldNames }
    \cup { Signed(Str("sig-by-x1"), InputNoField) }

NextHeaders ==
    \/ \E c \in Sequential, request \in HeaderRequests :
         validateWebBotAuth(c, request)
    \/ \E c \in Sequential, response \in BatchResponses :
         fetchSettles(c, response)

SpecHeaders == InitConcurrent /\ [][NextHeaders]_vars

\* The signature-input of the request holds the field.
HoldsField(request, name) ==
    \E i \in 1..Len(request.headers["signature-input"].tokens) :
        request.headers["signature-input"].tokens[i].name = name

\* Step 1 has parsed the headers, every field the signature-input does not
\* hold is unset, and a request without keyid whose directory was resolved
\* got the unknown-key outcome: no key matched and none was tried.
ParsedLeniently(c) ==
    LET request == calls[c].request
        components == extractSignatureComponents(request)
        result == calls[c].result
    IN  /\ components # Null
        /\ result.details.signatureFound
        /\ ~IsMissingSignature(result)
        /\ \A name \in FieldNames :
              ~HoldsField(request, name)
              => components[MemberOf[name]] = Undef
        /\ ~HoldsField(request, "keyid") /\ Resolved(c)
           => /\ IsUnknownKey(result)
              /\ result.details = Details(TRUE, TRUE, FALSE, FALSE)
              /\ calls[c].verifications = 0
              /\ findKeyById(calls[c].directoryResult.directory, Str(""))
                   = Undef

(***************************************************************************)
(* C30.  Header parsing never fails.  As claimed, whenever both headers    *)
(* are present, step 1 succeeds with every absent field unset, and a       *)
(* request without keyid fails only at key matching ...                    *)
(***************************************************************************)
C30_PresentHeadersParse ==
    \A c \in Slots :
        /\ Validated(c)
        /\ HasHeader(calls[c].request, "signature")
        /\ HasHeader(calls[c].request, "signature-input")
        => ParsedLeniently(c)

\* ... and as the code has it, whenever both headers are present and not
\* empty: a header with an empty value reads as a missing one.
C30_NonEmptyHeadersParse ==
    \A c \in Slots :
        Validated(c) /\ IsSigned(calls[c].request)
        => ParsedLeniently(c)

\* A request whose signature-input holds every field but keyid was verified
\* against a resolved directory and got the unknown-key outcome.
C30_Witness ==
    \E c \in Slots :
        /\ Validated(c)
        /\ calls[c].request
             = Signed(Str("sig-by-x1"), InputWith(FieldNames \ {"keyid"}))
        /\ Resolved(c)
        /\ IsUnknownKey(calls[c].result)
        /\ calls[c].result.error
             = <<"No matching key found for kid: ", "undefined">>

(***************************************************************************)
(* C31.  When the configuration has no expected purpose, step 5 is         *)
(* skipped: a request whose signature verifies under the key it names is   *)
(* valid whatever purpose the directory declares, also none, and           *)
(* metadata.purpose is the purpose of the directory.                       *)
(***************************************************************************)
C31_NoExpectedPurposeSkipsCheck ==
    \A c \in Slots :
        /\ Validated(c)
        /\ validationConfig # Null
        /\ validationConfig.purpose = Undef
        /\ Resolved(c)
        /\ IsSigned(calls[c].request)
        /\ SignatureVerifies(calls[c].request,
                             calls[c].directoryResult.directory)
        => /\ calls[c].result.isValid
           /\ calls[c].result.metadata.purpose
                = calls[c].directoryResult.directory.purpose
           /\ calls[c].result.error = NoError

\* Under a configuration without expected purpose a request was accepted
\* against a directory that declares no purpose: the metadata has none.
C31_Witness ==
    \E c \in Slots :
        /\ Validated(c)
        /\ validationConfig # Null
        /\ validationConfig.purpose = Undef
        /\ Resolved(c)
        /\ calls[c].directoryResult.directory.purpose = Undef
        /\ calls[c].result.isValid
        /\ calls[c].result.metadata.purpose = Undef

(***************************************************************************)
(* Validation twice: the directory address serves one document, and a      *)
(* caller resolves it in the first slot and in the last with a window of   *)
(* 0, so that the document is validated twice.                             *)
(***************************************************************************)
InitValidate ==
    /\ now = 0
    /\ directoryCache = << >>
    /\ fetchCount = 0
    /\ calls = [c \in Slots |-> Idle]
    /\ batch = NoBatch
    /\ NODE_ENV = "production"
    /\ validationConfig \in { Config(u, Undef, Num(0)) : u \in Urls }
    /\ \E document \in KeyDocuments \cup FieldDocuments \cup Documents :
         lookup = [pc |-> "input", directory |-> document,
                   kid |-> Str("k1"), key |-> Undef]
    /\ stats = NoStats

NextValidate ==
    \/ \E c \in ProbeSlots, url \in Urls :
         fetchSignaturesDirectory(c, url, Num(0))
    \/ \E c \in ProbeSlots :
         fetchSettles(c, Response(200, "OK", lookup.directory))

SpecValidate == InitValidate /\ [][NextValidate]_vars

\* The resolve of slot c has fetched and validated the document.
ValidatedDocument(c) ==
    /\ Done(c)
    /\ calls[c].fetches = 1
    /\ calls[c].response = Response(200, "OK", lookup.directory)

StatsResponses ==
    { Rejected("Network error"),
      Response(200, "OK", Dir(Arr(<<K1, K2>>), Str("rag"))) }

NextStats ==
    \/ \E c \in Sequential, url \in CacheUrls :
         fetchSignaturesDirectory(c, url, Num(shortTimeout))
    \/ \E c \in Sequential, response \in StatsResponses :
         fetchSettles(c, response)
    \/ clearDirectoryCache
    \/ getCacheStatsCall
    \/ Tick

SpecStats == InitConcurrent /\ [][NextStats]_vars

(***************************************************************************)
(* C33.  getCacheStats is introspection only: the call changes no entry of *)
(* the cache, the size it reports is the number of entries it lists, and   *)
(* it lists the URLs that have an entry.  The URLs that have an entry are  *)
(* the URLs fetched with success since the last clear: a fetch that        *)
(* succeeds adds its URL, a fetch that fails adds none, a clear removes    *)
(* all, and no other step adds or removes one, so that an entry that has   *)
(* become stale with the passing of time is still counted.                 *)
(***************************************************************************)
C33_StatsListStoredUrls ==
    [][/\ stats' # stats
          => /\ directoryCache' = directoryCache
             /\ stats'.size = Cardinality(stats'.entries)
             /\ stats'.entries = DOMAIN directoryCache
       /\ \A c \in Slots :
             Settles(c)
             => DOMAIN directoryCache'
                  = IF calls'[c].directoryResult.success
                      THEN DOMAIN directoryCache \cup {calls[c].url}
                      ELSE DOMAIN directoryCache
       /\ Clears => DOMAIN directoryCache' = {}
       /\ ~Clears /\ (\A c \in Slots : ~Settles(c))
          => DOMAIN directoryCache' = DOMAIN directoryCache]_vars

\* The statistics list two URLs, one fetched after a failed fetch of another
\* URL and at an instant at which the entry of the first, stored at instant
\* 0, was stale for the callers; both entries are still in the cache.
C33_Witness ==
    /\ stats # NoStats
    /\ stats.size = 2
    /\ stats.entries = DOMAIN directoryCache
    /\ \E url, other \in stats.entries :
          /\ directoryCache[url].timestamp = 0
          /\ directoryCache[other].timestamp >= shortTimeout
          /\ ~Fresh(url, Num(shortTimeout))

(***************************************************************************)
(* The request as the verifier leaves it: requests that agree in their     *)
(* signature and signature-input headers and differ in the other headers   *)
(* they carry are verified directly, with the debug variant and in         *)
(* batches.                                                                *)
(***************************************************************************)
SignatureAgent == "signature-agent" :> Str("https://a.example")

OtherHeaders == { << >>, SignatureAgent }

SignatureHeaders ==
    { << >>,
      ("signature" :> Str("sig-by-x1")) @@ ("signature-input" :> InputK1) }

FrameRequests ==
    { Req(signed @@ other) :
        signed \in SignatureHeaders, other \in OtherHeaders }

\* Batches of one validly signed request, with or without another header.
FrameBatches ==
    { [i \in 1..MaxCalls |->
         Req(Signed(Str("sig-by-x1"), InputK1).headers @@ other)] :
        other \in OtherHeaders }

NextRequest ==
    \/ \E c \in Sequential, request \in FrameRequests :
         validateWebBotAuth(c, request)
    \/ \E c \in ProbeSlots, request \in FrameRequests :
         validateWithDebug(c, request)
    \/ \E requests \in FrameBatches : validateBatch(requests)
    \/ \E c \in Slots, response \in BatchResponses :
         fetchSettles(c, response)

SpecRequest == InitConcurrent /\ [][NextRequest]_vars

\* The two requests have the same signature and signature-input headers.
SameSignatureHeaders(request, other) ==
    /\ headersGet(request, "signature") = headersGet(other, "signature")
    /\ headersGet(request, "signature-input")
         = headersGet(other, "signature-input")

\* The members of a ValidationResult.
Verdict(result) ==
    [isValid |-> result.isValid, error |-> result.error,
     details |-> result.details, metadata |-> result.metadata]

\* While a verification waits, and when it returns, the request is the
\* request that was passed, and so are the requests of a batch.
RequestKept ==
    /\ \A c \in Slots :
          calls[c].pc = "fetch" => calls'[c].request = calls[c].request
    /\ batch.pc = "pending" => batch'.requests = batch.requests

\* Two completed calls of the same operation on requests with the same
\* signature headers, against the same outcome of the resolve.
SameButOtherHeaders(cs, c, d) ==
    /\ cs[c].pc = "done" /\ cs[d].pc = "done"
    /\ cs[c].op \in {"validateWebBotAuth", "validateWithDebug"}
    /\ cs[c].op = cs[d].op
    /\ SameSignatureHeaders(cs[c].request, cs[d].request)
    /\ cs[c].directoryResult = cs[d].directoryResult

\* The debug member holds the headers, the URL and the method of the request.
DebugCopies(debug, request) ==
    /\ debug.headers = request.headers
    /\ debug.url = request.url
    /\ debug.method = request.method

C35_InvalidateOneUrl ==
    [][Clears
       => \E url \in CacheUrls :
             \A other \in DOMAIN directoryCache \ {url} :
                 /\ other \in DOMAIN directoryCache'
                 /\ directoryCache'[other] = directoryCache[other]]_vars

(***************************************************************************)
(* C36.  In every result of validateWebBotAuth the four milestones are     *)
(* prefix-closed in the order signatureFound, directoryFetched,            *)
(* keyMatched, signatureValid: a milestone is true only if every milestone *)
(* before it is, also in the result the catch builds from an exception;    *)
(* and a result with isValid true has all four true.                       *)
(***************************************************************************)
C36_MilestonesPrefixClosed ==
    \A c \in Slots :
        Validated(c)
        => LET details == calls[c].result.details
           IN  /\ details.signatureValid => details.keyMatched
               /\ details.keyMatched => details.directoryFetched
               /\ details.directoryFetched => details.signatureFound
               /\ calls[c].result.isValid
                  => /\ details.signatureFound
                     /\ details.directoryFetched
                     /\ details.keyMatched
                     /\ details.signatureValid

\* A verification of a signed request under a configuration that is null
\* ended in the catch, with the first milestone reached and no other.
C36_Witness ==
    \E c \in Slots :
        /\ Validated(c)
        /\ validationConfig = Null
        /\ IsValidationError(calls[c].result)
        /\ calls[c].result.details = Details(TRUE, FALSE, FALSE, FALSE)

(***************************************************************************)
(* C37.  A resolve that fails leaves the cache unchanged: no entry is      *)
(* added, removed or modified.  A stale entry therefore survives a failed  *)
(* refetch, and a later resolve of its URL whose window is larger than the *)
(* age of the entry is served from it, without a call of fetch().          *)
(***************************************************************************)
C37_FailedResolveKeepsCache ==
    [][\A c \in Slots :
          /\ Settles(c) /\ ~calls'[c].directoryResult.success
             => directoryCache' = directoryCache
          /\ Starts(c) /\ Fresh(calls'[c].url, calls'[c].cacheTimeout)
             => /\ calls'[c].pc = "done"
                /\ fetchCount' = fetchCount
                /\ calls'[c].directoryResult.success
                /\ calls'[c].directoryResult.directory
                     = directoryCache[calls'[c].url].data
                /\ directoryCache' = directoryCache]_vars

\* An entry stored at instant 0 was stale for a resolve with the window of
\* the cache tests, and the refetch of that resolve failed: the entry is in
\* the cache as it was stored.
C37_Witness ==
    \E c \in Slots :
        /\ Done(c)
        /\ calls[c].cacheTimeout = Num(shortTimeout)
        /\ calls[c].fetches = 1
        /\ ~calls[c].directoryResult.success
        /\ calls[c].directoryResult.timestamp >= shortTimeout
        /\ fetchCount = 2
        /\ DOMAIN directoryCache = {calls[c].url}
        /\ directoryCache[calls[c].url].timestamp = 0
        /\ Fresh(calls[c].url, Undef)

(***************************************************************************)
(* C38.  Freshness is judged with the window of the call that looks the    *)
(* entry up: a resolve of a URL that has an entry is served from the cache *)
(* exactly when the age of the entry is less than the window this resolve  *)
(* supplies (one hour when it supplies none), whatever window the resolve  *)
(* that stored the entry, or any resolve in between, had.  The entry holds *)
(* no window.                                                              *)
(***************************************************************************)
C38_WindowOfTheLookup ==
    [][\A c \in Slots :
          Starts(c) /\ calls'[c].url \in DOMAIN directoryCache
          => /\ calls'[c].pc = "done" /\ calls'[c].fetches = 0
                <=> now - directoryCache[calls'[c].url].timestamp
                      < Window(calls'[c].cacheTimeout)
             /\ calls'[c].pc = "fetch" /\ fetchCount' = fetchCount + 1
                <=> now - directoryCache[calls'[c].url].timestamp
                      >= Window(calls'[c].cacheTimeout)
             /\ DOMAIN directoryCache[calls'[c].url]
                  = {"data", "timestamp"}]_vars

\* A resolve with the window of the cache tests waits for fetch() although
\* the entry of its URL, stored at instant 0, is fresh for a resolve with
\* the default window.
C38_Witness ==
    \E c \in Slots :
        /\ calls[c].pc = "fetch"
        /\ calls[c].op = "fetchSignaturesDirectory"
        /\ calls[c].cacheTimeout = Num(shortTimeout)
        /\ calls[c].url \in DOMAIN directoryCache
        /\ directoryCache[calls[c].url].timestamp = 0
        /\ calls[c].timestamp >= shortTimeout
        /\ Fresh(calls[c].url, Undef)
        /\ validationConfig.cacheTimeout = Undef

(***************************************************************************)
(* C39.  Whatever the interleaving of resolves in parallel, the directory  *)
(* and the timestamp of a cache entry come from one and the same           *)
(* successful resolve: the directory is the document that resolve was      *)
(* served and the timestamp is the instant that resolve started, taken     *)
(* before its call of fetch(), and not the instant the response arrived.   *)
(* A resolve served from the cache returns the timestamp of the entry and  *)
(* not the instant of the lookup.                                          *)
(***************************************************************************)
C39_EntryOfOneResolve ==
    [][\A c \in Slots :
          /\ Starts(c) /\ calls'[c].pc = "fetch"
             => calls'[c].timestamp = now
          /\ Settles(c) /\ calls'[c].directoryResult.success
             => /\ directoryCache'[calls[c].url]
                     = [data |-> calls'[c].response.json,
                        timestamp |-> calls[c].timestamp]
                /\ calls'[c].directoryResult.timestamp = calls[c].timestamp
                /\ calls'[c].directoryResult.directory
                     = calls'[c].response.json
          /\ Starts(c) /\ calls'[c].pc = "done"
             => /\ calls'[c].directoryResult.timestamp
                     = directoryCache[calls'[c].url].timestamp
                /\ calls'[c].directoryResult.directory
                     = directoryCache[calls'[c].url].data
                /\ directoryCache' = directoryCache]_vars

\* Two resolves of one URL fetched two documents.  The one that started at
\* instant 0 settled last, after the other had started: the entry holds its
\* document with the timestamp 0, which is older than the timestamp the
\* other resolve returned.
C39_Witness ==
    \E c, d \in Slots :
        /\ Done(c) /\ Done(d)
        /\ calls[c].url = calls[d].url
        /\ calls[c].fetches = 1 /\ calls[d].fetches = 1
        /\ fetchCount = 2
        /\ calls[c].directoryResult.success
        /\ calls[d].directoryResult.success
        /\ calls[c].directoryResult.timestamp = 0
        /\ calls[d].directoryResult.timestamp > 0
        /\ calls[c].response.json # calls[d].response.json
        /\ directoryCache[calls[c].url]
             = [data |-> calls[c].response.json, timestamp |-> 0]

=============================================================================
